---- MODULE Spec2Model ----
(***************************************************************************)
(* A model of the geospatial question-answering backend:                   *)
(*   - routing_service.route, the four-stage resolver (L1 category, L2     *)
(*     card, L3 table, SQL statement) driven by an external classifier;    *)
(*   - api/query.py, the /query handler built on the resolver;             *)
(*   - sql_service.SQLService, the validator, the executor, the builder    *)
(*     and the column cache, and Orchestrator.handle_query on top of them; *)
(*   - the scripts run_init_tasks_llm, import_table_name and               *)
(*     import_three_level_mapping;                                         *)
(*   - routing_service.parse_json_safely, the decoder of classifier output.*)
(* Each part has its own specification over the shared variables.          *)
(***************************************************************************)
EXTENDS Integers, Sequences, FiniteSets, TLC

VARIABLES
    \* ---- routing_service.route ----
    rpc,            \* position of the current run of route
    question,       \* the arguments <<user_question, limit>> of the current call
    l1_list,        \* candidates of step 1
    l1_ids,         \* ids selected at step 1
    l2_all,         \* candidates of step 2
    l2_ids,         \* ids selected at step 2
    l3_all,         \* candidates of step 3
    table_name,     \* table selected at step 3
    outputs,        \* d1..d4 collected so far, one entry per completed step
    route_result,   \* <<>> or <<the dict returned to the caller>>
    route_error,    \* "" or the exception that left route
    route_cache,    \* the lru_cache of route: arguments -> returned dict
    from_cache,     \* the last call was answered by the lru_cache
    llm_calls,      \* the classifier invocations of this run: <<[stage, candidates]>>
    lookups,        \* the catalog lookups of this run: <<[fn, id]>>
    schema_fetches, \* the tables whose schema this run read, in order
    entered,        \* the stages entered in this run, in order
    \* ---- sql_service.SQLService (the module-level _sql_service) ----
    max_query_length, \* _max_query_length
    max_limit,      \* _max_limit
    sql_op,         \* the last operation called on the service
    sql_text,       \* its argument: the statement, or the table name
    sql_out,        \* <<>> or <<the QueryResult returned>>
    sql_raised,     \* "" or the message of the exception the operation raised
    db_log,         \* the statements the operation handed to conn.execute
    store_log,      \* how the store answered each of them (TRUE: accepted)
    conn_count,     \* the connections the operation opened
    validate_log,   \* the validate_sql_syntax calls of the operation
    columns_cache,  \* _columns_cache: sanitized table name -> set of columns
    db_schema,      \* information_schema.columns of the store: table -> columns
    cols_out,       \* the column set get_table_columns returned
    last_return,    \* table -> <<>> or <<what get_table_columns last returned>>,
                    \* since the last clear_cache
    seen_before,    \* last_return of the table as it was when the call began
    \* ---- concurrent callers of get_table_columns ----
    caller_pc,      \* caller -> where it is in get_table_columns
    caller_cols,    \* caller -> its local cols
    caller_out,     \* caller -> <<>> or <<the set returned>>
    introspections, \* the introspection queries issued to the store
    \* ---- api/query.py: one /query request at a time ----
    req_pc,         \* "idle", "built" (between the two try blocks), "responded"
    req_question,   \* payload["question"]
    resolver_out,   \* <<>> or <<what start_geo_reasoning did>>
    q_sql,          \* sql, after the l1_id patch
    q_params,       \* params, as bound when the statement is run
    q_sql_with_params, \* the statement with its parameters written in
    q_reasons,      \* reason_list
    run_log,        \* the statements run_sql sent to the store
    fallback_used,  \* whether the rows came from the SELECT * retry
    response,       \* <<>> or <<[status, body]>>
    \* ---- sql_service.SQLService.build_select_sql ----
    build_args,     \* the columns, filters, limit and offset of the last call
    build_out,      \* <<>> or <<[sql, params]>> as returned
    \* ---- script/run_init_tasks_llm.py ----
    init_tasks,     \* public.init_tasks: table_name -> the row
    l3_cards,       \* the table names that have a row in l3_table
    task_pc,        \* 0: no run; 1..4: process_table before step k; 5: before the writes
    task_table,     \* --table of the last run
    task_before,    \* the rows main fetched, as process_table received them
    task_fields,    \* fields: the results collected by the steps of this run
    task_dry_run,   \* --dry-run of the last run
    task_calls,     \* the call_llm invocations of the last run: <<[step, input, ok]>>
    task_writes,    \* the database writes of the last run, in order
    task_raised,    \* whether the last run ended with an exception
    \* ---- script/import_three_level_mapping.py ----
    map_db,         \* l1_category, l2_card, map_l1_l2, map_l2_l3 and the id sequences
    map_l3,         \* the rows of l3_table
    map_before,     \* <<>> or <<[db, l3]>>: the tables as the last run found them
    map_args,       \* <<>> or <<[mapping, keep_existing, dry_run]>> of the last run
    \* ---- script/import_table_name.py ----
    imp_columns,    \* public.init_tasks: column -> "missing", "text" or "jsonb"
    imp_rows,       \* public.init_tasks: table_name -> <<>> or <<the row>>
    imp_before,     \* <<>> or <<[columns, rows]>> as the last run found them
    imp_args,       \* <<>> or <<the arguments of the last run>>
    imp_log,        \* the statements the last run executed, in order
    \* ---- routing_service.parse_json_safely ----
    dec_text,       \* the classifier output handed to parse_json_safely, as tokens
    dec_out         \* <<>> or <<[ok, value]>>: what it returned, or that it raised

routeVars == <<rpc, question, l1_list, l1_ids, l2_all, l2_ids, l3_all, table_name,
               outputs, route_result, route_error, route_cache, from_cache,
               llm_calls, lookups, schema_fetches, entered>>

sqlVars == <<max_query_length, max_limit, sql_op, sql_text, sql_out, sql_raised,
             db_log, store_log, conn_count, validate_log>>

columnVars == <<columns_cache, db_schema, cols_out, last_return, seen_before>>

callerVars == <<caller_pc, caller_cols, caller_out, introspections>>

queryVars == <<req_pc, req_question, resolver_out, q_sql, q_params,
               q_sql_with_params, q_reasons, run_log, fallback_used, response>>

builderVars == <<build_args, build_out>>

taskVars == <<init_tasks, l3_cards, task_pc, task_table, task_before, task_fields,
              task_dry_run, task_calls,
              task_writes, task_raised>>

mappingVars == <<map_db, map_l3, map_before, map_args>>

importVars == <<imp_columns, imp_rows, imp_before, imp_args, imp_log>>

decoderVars == <<dec_text, dec_out>>

scriptVars == <<taskVars, mappingVars, importVars, decoderVars>>

vars == <<routeVars, sqlVars, columnVars, callerVars, queryVars, builderVars,
          scriptVars>>

(***************************************************************************)
(* Generic helpers                                                         *)
(***************************************************************************)
Range(s) == {s[i] : i \in DOMAIN s}

RECURSIVE FlatMap(_, _)
\* [x for k in keys for x in F[k]]: the concatenation of F over keys, in order
FlatMap(F, keys) ==
    IF keys = <<>> THEN <<>> ELSE F[Head(keys)] \o FlatMap(F, Tail(keys))

Ids(rows) == {rows[i].id : i \in DOMAIN rows}

(***************************************************************************)
(* The catalog: rows of l1_category, l2_card, l3_table and the two mapping *)
(* tables.  Category 3 has no card; card 11 hangs under categories 1 and   *)
(* 2; table 101 hangs under cards 10 and 11; category 4 is retired.        *)
(***************************************************************************)
NameOrder == <<"administrative", "boundaries", "lakes", "natural", "retired",
               "rivers", "transport", "waters">>

NameRank(n) == CHOOSE i \in DOMAIN NameOrder : NameOrder[i] = n

l1_category ==
    { [id |-> 1, name |-> "natural",        weight |-> 100, active |-> TRUE],
      [id |-> 2, name |-> "administrative", weight |-> 100, active |-> TRUE],
      [id |-> 3, name |-> "transport",      weight |-> 50,  active |-> TRUE],
      [id |-> 4, name |-> "retired",        weight |-> 200, active |-> FALSE] }

l2_card ==
    { [id |-> 10, name |-> "waters",     weight |-> 100, active |-> TRUE],
      [id |-> 11, name |-> "boundaries", weight |-> 100, active |-> TRUE] }

l3_table ==
    { [id |-> 100, table_name |-> "ne_10m_lakes",  display_name |-> "lakes",
       active |-> TRUE],
      [id |-> 101, table_name |-> "ne_10m_rivers", display_name |-> "rivers",
       active |-> TRUE] }

map_l1_l2 ==
    { [l1_id |-> 1, l2_id |-> 10, weight |-> 100],
      [l1_id |-> 1, l2_id |-> 11, weight |-> 50],
      [l1_id |-> 2, l2_id |-> 11, weight |-> 100] }

map_l2_l3 ==
    { [l2_id |-> 10, l3_id |-> 100, weight |-> 100],
      [l2_id |-> 10, l3_id |-> 101, weight |-> 50],
      [l2_id |-> 11, l3_id |-> 101, weight |-> 100] }

\* the order of a result set: SortSeq over any enumeration of the rows
RECURSIVE SetToSeq(_)
SetToSeq(S) ==
    IF S = {} THEN <<>>
    ELSE LET x == CHOOSE y \in S : TRUE IN <<x>> \o SetToSeq(S \ {x})

OrderBy(S, Before(_, _)) == SortSeq(SetToSeq(S), Before)

\* ORDER BY weight DESC, name
L1Before(a, b) ==
    \/ a.weight > b.weight
    \/ a.weight = b.weight /\ NameRank(a.name) < NameRank(b.name)

get_all_l1_categories ==
    LET rows == OrderBy({c \in l1_category : c.active}, L1Before)
    IN  [i \in DOMAIN rows |-> [id |-> rows[i].id, name |-> rows[i].name]]

\* ORDER BY m.weight DESC, l2.weight DESC, l2.name
L2Before(a, b) ==
    \/ a.m_weight > b.m_weight
    \/ a.m_weight = b.m_weight /\ a.weight > b.weight
    \/ a.m_weight = b.m_weight /\ a.weight = b.weight
       /\ NameRank(a.name) < NameRank(b.name)

get_l2_cards_by_l1(l1_id) ==
    LET joined == { [id |-> c.id, name |-> c.name, weight |-> c.weight,
                     m_weight |-> m.weight] :
                    <<c, m>> \in { p \in l2_card \X map_l1_l2 :
                                   /\ p[1].id = p[2].l2_id
                                   /\ p[2].l1_id = l1_id
                                   /\ p[1].active } }
        rows == OrderBy(joined, L2Before)
    IN  [i \in DOMAIN rows |-> [id |-> rows[i].id, name |-> rows[i].name]]

\* ORDER BY m.weight DESC, l3.display_name
L3Before(a, b) ==
    \/ a.m_weight > b.m_weight
    \/ a.m_weight = b.m_weight
       /\ NameRank(a.display_name) < NameRank(b.display_name)

get_l3_tables_by_l2(l2_id) ==
    LET joined == { [id |-> t.id, table_name |-> t.table_name,
                     display_name |-> t.display_name, m_weight |-> m.weight] :
                    <<t, m>> \in { p \in l3_table \X map_l2_l3 :
                                   /\ p[1].id = p[2].l3_id
                                   /\ p[2].l2_id = l2_id
                                   /\ p[1].active } }
        rows == OrderBy(joined, L3Before)
    IN  [i \in DOMAIN rows |->
            [id |-> rows[i].id, table_name |-> rows[i].table_name]]

(***************************************************************************)
(* routing_service.route                                                   *)
(*                                                                         *)
(* The classifier (llm_service.generate followed by parse_json_safely) is  *)
(* external: each step draws its answer from a set of answers.  An answer  *)
(* is the parsed JSON object, or one of the ways of having none:           *)
(*   "garbage"    parse_json_safely raises,                                *)
(*   "nonint"     an element of the selection has an id int() rejects,     *)
(*   "json_list"  l3_selected is a list, which has no .get,                *)
(*   "llm_error"  llm_service.generate raises.                             *)
(***************************************************************************)
Questions == {"Find all lakes"}

DefaultLimit == 100

L1Selections == { <<>>, <<1>>, <<3>>, <<1, 2>>, <<99>>, <<1, 2, 3>> }

L2Selections == { <<>>, <<10>>, <<11>>, <<10, 11>>, <<99>>, <<10, 11, 99>> }

L3Names == { "ne_10m_lakes", "ne_10m_rivers", "pg_shadow", "" }

Step1Answers ==
    { [kind |-> "json", l1_selected |-> s, reasons |-> <<"why L1">>] :
        s \in L1Selections }
    \cup { [kind |-> "garbage"], [kind |-> "nonint"], [kind |-> "llm_error"] }

Step2Answers ==
    { [kind |-> "json", l2_selected |-> s, reasons |-> <<"why L2">>] :
        s \in L2Selections }
    \cup { [kind |-> "garbage"], [kind |-> "nonint"], [kind |-> "llm_error"] }

Step3Answers ==
    { [kind |-> "json", table_name |-> n, reasons |-> <<"why L3">>] :
        n \in L3Names }
    \cup { [kind |-> "garbage"], [kind |-> "json_list"], [kind |-> "llm_error"] }

Step4Answers ==
    { [kind |-> "json", final_sql |-> "SELECT name FROM ne_data.t LIMIT 100"],
      [kind |-> "garbage"], [kind |-> "llm_error"] }

ErrorOf(kind) ==
    CASE kind = "garbage"   -> "JSONDecodeError"
      [] kind = "nonint"    -> "ValueError"
      [] kind = "json_list" -> "AttributeError"
      [] kind = "llm_error" -> "RuntimeError"

\* (mutant) a failing stage hands back what the earlier stages produced
RouteRaise_Partial(e) ==
    /\ rpc' = "ERROR"
    /\ route_error' = e
    /\ route_result' = <<[inputs |-> llm_calls, outputs |-> outputs]>>
    /\ UNCHANGED route_cache

\* an exception leaves route: nothing is returned and nothing is cached
RouteRaise(e) ==
    /\ rpc' = "ERROR"
    /\ route_error' = e
    /\ route_result' = <<>>
    /\ UNCHANGED route_cache

InitRoute ==
    /\ rpc = "idle"
    /\ question = <<"", DefaultLimit>>
    /\ l1_list = <<>>
    /\ l1_ids = <<>>
    /\ l2_all = <<>>
    /\ l2_ids = <<>>
    /\ l3_all = <<>>
    /\ table_name = ""
    /\ outputs = <<>>
    /\ route_result = <<>>
    /\ route_error = ""
    /\ route_cache = <<>>
    /\ from_cache = FALSE
    /\ llm_calls = <<>>
    /\ lookups = <<>>
    /\ schema_fetches = <<>>
    /\ entered = <<>>

\* a call of route(user_question, limit): the lru_cache answers it, or the
\* body starts with fresh locals
RouteCall(q) ==
    /\ rpc \in {"idle", "DONE", "ERROR"}
    /\ UNCHANGED <<sqlVars, columnVars, callerVars, queryVars, builderVars, scriptVars>>
    /\ question' = <<q, DefaultLimit>>
    /\ l1_list' = <<>>
    /\ l1_ids' = <<>>
    /\ l2_all' = <<>>
    /\ l2_ids' = <<>>
    /\ l3_all' = <<>>
    /\ table_name' = ""
    /\ outputs' = <<>>
    /\ route_error' = ""
    /\ llm_calls' = <<>>
    /\ lookups' = <<>>
    /\ schema_fetches' = <<>>
    /\ entered' = <<>>
    /\ UNCHANGED route_cache
    /\ IF question' \in DOMAIN route_cache
       THEN /\ rpc' = "idle"
            /\ route_result' = <<route_cache[question']>>
            /\ from_cache' = TRUE
       ELSE /\ rpc' = "CATEGORY"
            /\ route_result' = <<>>
            /\ from_cache' = FALSE

\* Step1: L1
Step1(a) ==
    /\ rpc = "CATEGORY"
    /\ UNCHANGED <<sqlVars, columnVars, callerVars, queryVars, builderVars, scriptVars>>
    /\ entered' = Append(entered, "CATEGORY")
    /\ l1_list' = get_all_l1_categories
    /\ llm_calls' = Append(llm_calls, [stage |-> "CATEGORY", candidates |-> l1_list'])
    /\ IF a.kind = "json"
       THEN /\ l1_ids' = a.l1_selected
            /\ outputs' = Append(outputs, [l1_selected |-> a.l1_selected,
                                           reasons |-> a.reasons])
            /\ rpc' = "CARD"
            /\ UNCHANGED <<route_result, route_error, route_cache>>
       ELSE /\ RouteRaise(ErrorOf(a.kind))
            /\ UNCHANGED <<l1_ids, outputs>>
    /\ UNCHANGED <<question, l2_all, l2_ids, l3_all, table_name, from_cache,
                   lookups, schema_fetches>>

\* Step2: L2
Step2(a) ==
    /\ rpc = "CARD"
    /\ UNCHANGED <<sqlVars, columnVars, callerVars, queryVars, builderVars, scriptVars>>
    /\ entered' = Append(entered, "CARD")
    /\ l2_all' = FlatMap([i \in Range(l1_ids) |-> get_l2_cards_by_l1(i)], l1_ids)
    /\ lookups' = lookups \o [i \in DOMAIN l1_ids |->
                                [fn |-> "get_l2_cards_by_l1", id |-> l1_ids[i]]]
    /\ llm_calls' = Append(llm_calls, [stage |-> "CARD", candidates |-> l2_all'])
    /\ IF a.kind = "json"
       THEN /\ l2_ids' = a.l2_selected
            /\ outputs' = Append(outputs, [l2_selected |-> a.l2_selected,
                                           reasons |-> a.reasons])
            /\ rpc' = "TABLE"
            /\ UNCHANGED <<route_result, route_error, route_cache>>
       ELSE /\ RouteRaise(ErrorOf(a.kind))
            /\ UNCHANGED <<l2_ids, outputs>>
    /\ UNCHANGED <<question, l1_list, l1_ids, l3_all, table_name, from_cache,
                   schema_fetches>>

\* Step3: L3
Step3(a) ==
    /\ rpc = "TABLE"
    /\ UNCHANGED <<sqlVars, columnVars, callerVars, queryVars, builderVars, scriptVars>>
    /\ entered' = Append(entered, "TABLE")
    /\ l3_all' = FlatMap([i \in Range(l2_ids) |-> get_l3_tables_by_l2(i)], l2_ids)
    /\ lookups' = lookups \o [i \in DOMAIN l2_ids |->
                                [fn |-> "get_l3_tables_by_l2", id |-> l2_ids[i]]]
    /\ llm_calls' = Append(llm_calls, [stage |-> "TABLE", candidates |-> l3_all'])
    /\ IF a.kind = "json"
       THEN IF a.table_name # ""
            THEN /\ table_name' = a.table_name
                 /\ outputs' = Append(outputs, [l3_selected |-> a.table_name,
                                                reasons |-> a.reasons])
                 /\ rpc' = "STATEMENT"
                 /\ UNCHANGED <<route_result, route_error, route_cache>>
            ELSE /\ RouteRaise("ValueError")
                 /\ UNCHANGED <<table_name, outputs>>
       ELSE /\ RouteRaise(ErrorOf(a.kind))
            /\ UNCHANGED <<table_name, outputs>>
    /\ UNCHANGED <<question, l1_list, l1_ids, l2_all, l2_ids, from_cache,
                   schema_fetches>>

\* Step4: SQL; on success route returns and the lru_cache keeps the result
Step4(a) ==
    /\ rpc = "STATEMENT"
    /\ UNCHANGED <<sqlVars, columnVars, callerVars, queryVars, builderVars, scriptVars>>
    /\ entered' = Append(entered, "STATEMENT")
    /\ schema_fetches' = Append(schema_fetches, table_name)
    /\ llm_calls' = Append(llm_calls, [stage |-> "STATEMENT", candidates |-> <<>>])
    /\ IF a.kind = "json"
       THEN /\ outputs' = Append(outputs, [final_sql |-> a.final_sql])
            /\ rpc' = "DONE"
            /\ route_result' = <<[inputs |-> llm_calls', outputs |-> outputs']>>
            /\ route_cache' = [k \in DOMAIN route_cache \cup {question} |->
                                 IF k = question THEN route_result'[1]
                                 ELSE route_cache[k]]
            /\ UNCHANGED route_error
       ELSE /\ RouteRaise(ErrorOf(a.kind))
            /\ UNCHANGED outputs
    /\ UNCHANGED <<question, l1_list, l1_ids, l2_all, l2_ids, l3_all, table_name,
                   from_cache, lookups>>

NextRoute ==
    \/ \E q \in Questions : RouteCall(q)
    \/ \E a \in Step1Answers : Step1(a)
    \/ \E a \in Step2Answers : Step2(a)
    \/ \E a \in Step3Answers : Step3(a)
    \/ \E a \in Step4Answers : Step4(a)


(***************************************************************************)
(* Text.  A statement is a string; Len, SubSeq and \o are those of         *)
(* Sequences, applied to strings.                                          *)
(***************************************************************************)
CharAt(s, i) == SubSeq(s, i, i)

IsSpace(c) == c \in {" ", "\t", "\n", "\r"}

IsDigit(c) == c \in {"0", "1", "2", "3", "4", "5", "6", "7", "8", "9"}

LowerLetters == <<"a", "b", "c", "d", "e", "f", "g", "h", "i", "j", "k", "l", "m",
                  "n", "o", "p", "q", "r", "s", "t", "u", "v", "w", "x", "y", "z">>

UpperLetters == <<"A", "B", "C", "D", "E", "F", "G", "H", "I", "J", "K", "L", "M",
                  "N", "O", "P", "Q", "R", "S", "T", "U", "V", "W", "X", "Y", "Z">>

UpperChar(c) ==
    IF \E k \in DOMAIN LowerLetters : LowerLetters[k] = c
    THEN UpperLetters[CHOOSE k \in DOMAIN LowerLetters : LowerLetters[k] = c]
    ELSE c

LowerChar(c) ==
    IF \E k \in DOMAIN UpperLetters : UpperLetters[k] = c
    THEN LowerLetters[CHOOSE k \in DOMAIN UpperLetters : UpperLetters[k] = c]
    ELSE c

RECURSIVE MapChars(_, _, _)
MapChars(s, i, upper) ==
    IF i > Len(s) THEN ""
    ELSE (IF upper THEN UpperChar(CharAt(s, i)) ELSE LowerChar(CharAt(s, i)))
         \o MapChars(s, i + 1, upper)

\* str.upper(), str.lower()
Upper(s) == MapChars(s, 1, TRUE)

Lower(s) == MapChars(s, 1, FALSE)

\* str.strip()
Strip(s) ==
    LET keep == {i \in 1..Len(s) : ~IsSpace(CharAt(s, i))}
    IN  IF keep = {} THEN ""
        ELSE SubSeq(s, CHOOSE i \in keep : \A j \in keep : i <= j,
                       CHOOSE i \in keep : \A j \in keep : i >= j)

\* s[i:].startswith(p), i counted from 1
MatchAt(s, i, p) ==
    /\ i >= 1
    /\ i + Len(p) - 1 <= Len(s)
    /\ SubSeq(s, i, i + Len(p) - 1) = p

\* s.startswith(p)
StartsWith(s, p) == MatchAt(s, 1, p)

\* p in s
Contains(s, p) == \E i \in 1..Len(s) : MatchAt(s, i, p)

\* s.count(c) for a single character c
Count(s, c) == Cardinality({i \in 1..Len(s) : CharAt(s, i) = c})

\* the first position >= i that holds no white space (Len(s) + 1 if none): \s*
SkipSpaces(s, i) ==
    LET stop == {j \in i..Len(s) : ~IsSpace(CharAt(s, j))}
    IN  IF stop = {} THEN Len(s) + 1 ELSE CHOOSE j \in stop : \A k \in stop : j <= k

\* the first position >= i that holds no digit (Len(s) + 1 if none): \d*
SkipDigits(s, i) ==
    LET stop == {j \in i..Len(s) : ~IsDigit(CharAt(s, j))}
    IN  IF stop = {} THEN Len(s) + 1 ELSE CHOOSE j \in stop : \A k \in stop : j <= k

DigitValue(c) ==
    CASE c = "0" -> 0 [] c = "1" -> 1 [] c = "2" -> 2 [] c = "3" -> 3 [] c = "4" -> 4
      [] c = "5" -> 5 [] c = "6" -> 6 [] c = "7" -> 7 [] c = "8" -> 8 [] c = "9" -> 9

RECURSIVE IntOf(_)
\* int(s) of a non-empty string of digits
IntOf(s) ==
    IF Len(s) = 0 THEN 0
    ELSE 10 * IntOf(SubSeq(s, 1, Len(s) - 1)) + DigitValue(CharAt(s, Len(s)))

\* re.search(word + r"\s+" + next, s): positions of word followed by white
\* space and then by a text that Follows accepts at the position given
WordThenSpace(s, word) ==
    {i \in 1..Len(s) : MatchAt(s, i, word) /\ i + Len(word) <= Len(s)
                       /\ IsSpace(CharAt(s, i + Len(word)))}

(***************************************************************************)
(* sql_service.SQLService: the validator                                   *)
(***************************************************************************)
SqlValidationResult(is_valid, error_message, warnings) ==
    [is_valid |-> is_valid, error_message |-> error_message, warnings |-> warnings]

dangerous_keywords ==
    {"DROP", "DELETE", "UPDATE", "INSERT", "ALTER", "CREATE", "TRUNCATE", "GRANT",
     "REVOKE"}

\* r";\s*(DROP|DELETE|UPDATE|INSERT|ALTER|CREATE|GRANT|REVOKE)"
InjectionAfterSemicolon(t) ==
    \E i \in 1..Len(t) :
        /\ CharAt(t, i) = ";"
        /\ \E kw \in {"DROP", "DELETE", "UPDATE", "INSERT", "ALTER", "CREATE", "GRANT",
                      "REVOKE"} : MatchAt(t, SkipSpaces(t, i + 1), kw)

\* r"UNION\s+SELECT"
InjectionUnionSelect(t) ==
    \E i \in WordThenSpace(t, "UNION") : MatchAt(t, SkipSpaces(t, i + 5), "SELECT")

\* r"--\s*[^\r\n]*"
InjectionLineComment(t) == Contains(t, "--")

\* r"/\*.*?\*/" with re.DOTALL
InjectionBlockComment(t) ==
    \E i \in 1..Len(t) : /\ MatchAt(t, i, "/*")
                         /\ \E j \in (i + 2)..Len(t) : MatchAt(t, j, "*/")

\* the injection_patterns, searched in sql_clean with re.IGNORECASE
injection_patterns(t) ==
    \/ InjectionAfterSemicolon(t)
    \/ InjectionUnionSelect(t)
    \/ InjectionLineComment(t)
    \/ InjectionBlockComment(t)
    \/ Contains(t, "XP_CMDSHELL")
    \/ Contains(t, "SP_EXECUTESQL")

\* re.search(r'SELECT\s+\*', sql_clean)
SelectStarUsed(t) ==
    \E i \in WordThenSpace(t, "SELECT") : MatchAt(t, SkipSpaces(t, i + 6), "*")

dangerous_funcs == <<"LOAD_FILE", "INTO OUTFILE", "INTO DUMPFILE">>

\* re.search(r'LIMIT\s+(\d+)', sql_clean): the positions where it matches
LimitMatches(t) ==
    {i \in WordThenSpace(t, "LIMIT") :
        LET d == SkipSpaces(t, i + 5) IN d <= Len(t) /\ IsDigit(CharAt(t, d))}

\* int(limit_match.group(1)) of the leftmost match
LimitValue(t) ==
    LET i == CHOOSE m \in LimitMatches(t) : \A n \in LimitMatches(t) : m <= n
        d == SkipSpaces(t, i + 5)
    IN  IntOf(SubSeq(t, d, SkipDigits(t, d) - 1))

validate_sql_syntax(sql, self_max_query_length, self_max_limit) ==
    LET sql_clean == Upper(Strip(sql))
        warnings == IF SelectStarUsed(sql_clean)
                    THEN <<"SELECT * usage detected - consider specifying explicit columns">>
                    ELSE <<>>
        bad_funcs == {k \in DOMAIN dangerous_funcs : Contains(sql_clean, dangerous_funcs[k])}
    IN  IF Strip(sql) = ""
        THEN SqlValidationResult(FALSE, "SQL query cannot be empty", <<>>)
        ELSE IF Len(sql) > self_max_query_length
        THEN SqlValidationResult(FALSE,
                 "SQL query too long (max " \o ToString(self_max_query_length)
                     \o " characters)", <<>>)
        ELSE IF \E keyword \in dangerous_keywords : Contains(sql_clean, keyword)
        THEN SqlValidationResult(FALSE, "Dangerous SQL operations are not allowed", <<>>)
        ELSE IF injection_patterns(sql_clean)
        THEN SqlValidationResult(FALSE, "Potential SQL injection detected", <<>>)
        ELSE IF ~StartsWith(sql_clean, "SELECT")
        THEN SqlValidationResult(FALSE, "Only SELECT statements are allowed", <<>>)
        ELSE IF Count(sql, "(") # Count(sql, ")")
        THEN SqlValidationResult(FALSE, "Unbalanced parentheses in SQL", <<>>)
        ELSE IF Count(sql, "'") % 2 # 0
        THEN SqlValidationResult(FALSE, "Unbalanced single quotes in SQL", <<>>)
        ELSE IF bad_funcs # {}
        THEN SqlValidationResult(FALSE,
                 "Dangerous function "
                     \o dangerous_funcs[CHOOSE k \in bad_funcs : \A m \in bad_funcs : k <= m]
                     \o " not allowed", <<>>)
        ELSE IF LimitMatches(sql_clean) # {} /\ LimitValue(sql_clean) > self_max_limit
        THEN SqlValidationResult(FALSE,
                 "LIMIT value " \o ToString(LimitValue(sql_clean))
                     \o " exceeds maximum " \o ToString(self_max_limit), <<>>)
        ELSE SqlValidationResult(TRUE, "", warnings)

(***************************************************************************)
(* sql_service.SQLService: the executor                                    *)
(***************************************************************************)
DefaultMaxQueryLength == 10000

DefaultMaxLimit == 10000

\* the other values set_limits is called with
SmallQueryLength == 30

SmallLimit == 50

QueryLengthArgs == {DefaultMaxQueryLength, SmallQueryLength}

LimitArgs == {DefaultMaxLimit, SmallLimit}

StatementArgs ==
    { "SELECT 1",
      "SELECT name FROM ne_data.ne_10m_lakes LIMIT 100",
      "SELECT nme, geom FROM ne_data.ne_10m_lakes WHERE x = 'y'",
      "SELECT * FROM t LIMIT 20000",
      "SELECT  * FROM t",
      "select name from t;",
      "SELECT updated_at FROM l1_category",
      "SELECT 1; DROP TABLE x",
      "SELECT 1; SELECT 2",
      "DROP TABLE x",
      "SELECT a FROM t UNION SELECT b FROM u",
      "SELECT a FROM t -- c",
      "SELECT (a FROM t",
      "WITH x AS (SELECT 1) SELECT * FROM x",
      "   ",
      "" }

\* validate_sql_syntax over the arguments in use, computed once
Validation ==
    [sql \in StatementArgs, mq \in QueryLengthArgs, ml \in LimitArgs |->
        validate_sql_syntax(sql, mq, ml)]

\* self.validate_sql_syntax(sql) of the service as configured
Validate(sql) == Validation[sql, max_query_length, max_limit]

QueryResult(success, data, meta, error) ==
    [success |-> success, data |-> data, meta |-> meta, error |-> error]

\* the rows a statement yields when the store accepts it
RowsOf(sql) == <<[row |-> 1]>>

StoreError == "(psycopg2.errors.UndefinedColumn) column does not exist"

\* (mutant) execute_sql without the validation step
execute_sql_Unvalidated(sql, store_ok) ==
    LET data == RowsOf(sql)
    IN  IF store_ok
        THEN [result |-> QueryResult(TRUE, data,
                             [rows |-> Len(data), warnings |-> <<>>], ""),
              db |-> <<sql>>, store |-> <<TRUE>>, conns |-> 1, validated |-> <<>>]
        ELSE [result |-> QueryResult(FALSE, <<>>, <<>>, StoreError),
              db |-> <<sql>>, store |-> <<FALSE>>, conns |-> 1, validated |-> <<>>]

\* SQLService.execute_sql(sql, params) from the validator's answer on: the
\* QueryResult, and what it did on the way: the statements run, the store's
\* answers, the connections opened and the validations made
execute_sql_after(validation, sql, store_ok) ==
    LET data == RowsOf(sql)
        seen == <<[sql |-> sql, is_valid |-> validation.is_valid]>>
    IN  IF ~validation.is_valid
        THEN [result |-> QueryResult(FALSE, <<>>, <<>>, validation.error_message),
              db |-> <<>>, store |-> <<>>, conns |-> 0, validated |-> seen]
        ELSE IF store_ok
        THEN [result |-> QueryResult(TRUE, data,
                             [rows |-> Len(data), warnings |-> validation.warnings], ""),
              db |-> <<sql>>, store |-> <<TRUE>>, conns |-> 1, validated |-> seen]
        ELSE [result |-> QueryResult(FALSE, <<>>, <<>>, StoreError),
              db |-> <<sql>>, store |-> <<FALSE>>, conns |-> 1, validated |-> seen]

\* SQLService.execute_sql(sql, params)
execute_sql(sql, store_ok) == execute_sql_after(Validate(sql), sql, store_ok)

\* SQLService.validate_and_execute(sql, params)
validate_and_execute(sql, store_ok) ==
    LET validation == Validate(sql)
        seen == <<[sql |-> sql, is_valid |-> validation.is_valid]>>
        r == execute_sql(sql, store_ok)
    IN  IF ~validation.is_valid
        THEN [result |-> QueryResult(FALSE, <<>>, <<>>, validation.error_message),
              db |-> <<>>, store |-> <<>>, conns |-> 0, validated |-> seen]
        ELSE IF validation.warnings # <<>> /\ r.result.success
        THEN [r EXCEPT !.validated = seen \o @,
                       !.result.meta.warnings = @ \o validation.warnings]
        ELSE [r EXCEPT !.validated = seen \o @]

InitSql ==
    /\ max_query_length = DefaultMaxQueryLength
    /\ max_limit = DefaultMaxLimit
    /\ sql_op = ""
    /\ sql_text = ""
    /\ sql_out = <<>>
    /\ sql_raised = ""
    /\ db_log = <<>>
    /\ store_log = <<>>
    /\ conn_count = 0
    /\ validate_log = <<>>

\* what an executor operation leaves behind
Ran(op, sql, r) ==
    /\ sql_op' = op
    /\ sql_text' = sql
    /\ sql_out' = <<r.result>>
    /\ db_log' = r.db
    /\ store_log' = r.store
    /\ conn_count' = r.conns
    /\ validate_log' = r.validated
    /\ UNCHANGED <<max_query_length, max_limit>>
    /\ UNCHANGED <<routeVars, columnVars, callerVars, queryVars, builderVars, scriptVars>>

\* _sql_service.execute_sql(sql, params)
ExecuteSql(sql, store_ok) ==
    /\ Ran("execute_sql", sql, execute_sql(sql, store_ok))
    /\ sql_raised' = ""

\* _sql_service.validate_and_execute(sql, params)
ValidateAndExecute(sql, store_ok) ==
    /\ Ran("validate_and_execute", sql, validate_and_execute(sql, store_ok))
    /\ sql_raised' = ""

\* the module-level execute(sql, params): raises where execute_sql failed
Execute(sql, store_ok) ==
    LET r == execute_sql(sql, store_ok)
    IN  /\ Ran("execute", sql, r)
        /\ sql_raised' = IF r.result.success THEN "" ELSE r.result.error

\* SQLService.set_limits(max_query_length, max_limit)
SetLimits(mq, ml) ==
    /\ max_query_length' = mq
    /\ max_limit' = ml
    /\ sql_op' = "set_limits"
    /\ sql_text' = ""
    /\ sql_out' = <<>>
    /\ sql_raised' = ""
    /\ db_log' = <<>>
    /\ store_log' = <<>>
    /\ conn_count' = 0
    /\ validate_log' = <<>>
    /\ UNCHANGED <<routeVars, columnVars, callerVars, queryVars, builderVars, scriptVars>>

NextSql ==
    \/ \E sql \in StatementArgs, ok \in BOOLEAN : ExecuteSql(sql, ok)
    \/ \E sql \in StatementArgs, ok \in BOOLEAN : ValidateAndExecute(sql, ok)
    \/ \E sql \in StatementArgs, ok \in BOOLEAN : Execute(sql, ok)
    \/ \E mq \in QueryLengthArgs, ml \in LimitArgs : SetLimits(mq, ml)

(***************************************************************************)
(* sql_service.SQLService: the column cache, one caller at a time          *)
(***************************************************************************)
IsIdentChar(c) ==
    \/ IsDigit(c)
    \/ c = "_"
    \/ \E k \in DOMAIN LowerLetters : c = LowerLetters[k] \/ c = UpperLetters[k]

RECURSIVE KeepIdentChars(_, _)
\* re.sub(r"[^a-zA-Z0-9_]", "", name)
KeepIdentChars(name, i) ==
    IF i > Len(name) THEN ""
    ELSE (IF IsIdentChar(CharAt(name, i)) THEN CharAt(name, i) ELSE "")
         \o KeepIdentChars(name, i + 1)

\* _sanitize_ident: the sanitized name, or "" where it raises ValueError
sanitize_ident(name) == KeepIdentChars(name, 1)

\* the tables of the store, and the columns each has before anybody alters it
DbTables == {"l1_category"}

BaseColumns(t) == {"id", "name"}

\* SELECT column_name FROM information_schema.columns WHERE ... table_name=:tbl
Introspect(schema, tbl) == IF tbl \in DOMAIN schema THEN schema[tbl] ELSE {}

IntrospectionSql == "SELECT column_name FROM information_schema.columns"

TableArgs == {"l1_category", "L1_CATEGORY", "no_such_table", "; --"}

\* models/dto.py
ALLOWED_TABLES ==
    {"l1_category", "l2_card", "l3_table", "map_l1_l2", "map_l2_l3", "prompt_templates"}

\* _sanitize_ident over the table names in use, computed once
Sanitized == [t \in TableArgs |-> sanitize_ident(t)]

InitColumns ==
    /\ columns_cache = <<>>
    /\ db_schema = [t \in DbTables |-> BaseColumns(t)]
    /\ cols_out = {}
    /\ last_return = [t \in TableArgs |-> <<>>]
    /\ seen_before = <<>>

\* SQLService.get_table_columns(table), called with nobody else in it
GetTableColumns(table, store_ok) ==
    LET tbl == Sanitized[table]
    IN  /\ sql_op' = "get_table_columns"
        /\ sql_text' = table
        /\ sql_out' = <<>>
        /\ validate_log' = <<>>
        /\ seen_before' = last_return[table]
        /\ UNCHANGED <<db_schema, max_query_length, max_limit>>
        /\ UNCHANGED <<routeVars, callerVars, queryVars, builderVars, scriptVars>>
        /\ IF tbl = ""
           THEN /\ sql_raised' = "invalid identifier"
                /\ cols_out' = {}
                /\ db_log' = <<>>
                /\ store_log' = <<>>
                /\ conn_count' = 0
                /\ UNCHANGED <<columns_cache, last_return>>
           ELSE /\ sql_raised' = ""
                /\ IF tbl \in DOMAIN columns_cache
                   THEN /\ cols_out' = columns_cache[tbl]
                        /\ db_log' = <<>>
                        /\ store_log' = <<>>
                        /\ conn_count' = 0
                        /\ UNCHANGED columns_cache
                   ELSE /\ db_log' = <<IntrospectionSql>>
                        /\ store_log' = <<store_ok>>
                        /\ conn_count' = 1
                        /\ IF store_ok
                           THEN /\ cols_out' = Introspect(db_schema, tbl)
                                /\ columns_cache' =
                                      [k \in DOMAIN columns_cache \cup {tbl} |->
                                          IF k = tbl THEN cols_out' ELSE columns_cache[k]]
                           ELSE /\ cols_out' = {}
                                /\ UNCHANGED columns_cache
                /\ last_return' = [last_return EXCEPT ![table] = <<cols_out'>>]

\* SQLService.clear_cache()
ClearCache ==
    /\ columns_cache' = <<>>
    /\ last_return' = [t \in TableArgs |-> <<>>]
    /\ sql_op' = "clear_cache"
    /\ sql_text' = ""
    /\ sql_out' = <<>>
    /\ sql_raised' = ""
    /\ cols_out' = {}
    /\ db_log' = <<>>
    /\ store_log' = <<>>
    /\ conn_count' = 0
    /\ validate_log' = <<>>
    /\ seen_before' = <<>>
    /\ UNCHANGED <<db_schema, max_query_length, max_limit>>
    /\ UNCHANGED <<routeVars, callerVars, queryVars, builderVars, scriptVars>>

\* somebody alters a table of the store: updated_at is added or dropped
AlterSchema(t) ==
    /\ db_schema' = [db_schema EXCEPT ![t] =
                        IF "updated_at" \in @ THEN @ \ {"updated_at"}
                        ELSE @ \cup {"updated_at"}]
    /\ UNCHANGED <<columns_cache, cols_out, last_return, seen_before>>
    /\ UNCHANGED <<routeVars, sqlVars, callerVars, queryVars, builderVars, scriptVars>>

NextColumns ==
    \/ \E t \in TableArgs, ok \in BOOLEAN : GetTableColumns(t, ok)
    \/ ClearCache
    \/ \E t \in DbTables : AlterSchema(t)

(***************************************************************************)
(* sql_service.SQLService.get_table_columns, callers running concurrently. *)
(* The method holds no lock: a caller can be preempted between the cache   *)
(* test, the query and the cache write.                                    *)
(***************************************************************************)
NumCallers == 2

Callers == 1..NumCallers

\* the table all of them ask for
SharedTable == "l1_category"

InitCallers ==
    /\ caller_pc = [c \in Callers |-> "idle"]
    /\ caller_cols = [c \in Callers |-> {}]
    /\ caller_out = [c \in Callers |-> <<>>]
    /\ introspections = 0

\* tbl = self._sanitize_ident(table); if tbl in self._columns_cache: return it
CallerEnter(c) ==
    LET tbl == Sanitized[SharedTable]
    IN  /\ caller_pc[c] = "idle"
        /\ IF tbl \in DOMAIN columns_cache
           THEN /\ caller_pc' = [caller_pc EXCEPT ![c] = "done"]
                /\ caller_out' = [caller_out EXCEPT ![c] = <<columns_cache[tbl]>>]
           ELSE /\ caller_pc' = [caller_pc EXCEPT ![c] = "query"]
                /\ UNCHANGED caller_out
        /\ UNCHANGED <<caller_cols, introspections, columns_cache, db_schema>>
        /\ UNCHANGED <<routeVars, sqlVars, queryVars, builderVars, scriptVars, cols_out, last_return, seen_before>>

\* with db.engine.connect() as conn: rows = conn.execute(...); cols = {...}
\* except Exception: return set()
CallerQuery(c, store_ok) ==
    LET tbl == Sanitized[SharedTable]
    IN  /\ caller_pc[c] = "query"
        /\ introspections' = introspections + 1
        /\ IF store_ok
           THEN /\ caller_cols' = [caller_cols EXCEPT ![c] = Introspect(db_schema, tbl)]
                /\ caller_pc' = [caller_pc EXCEPT ![c] = "store"]
                /\ UNCHANGED caller_out
           ELSE /\ caller_out' = [caller_out EXCEPT ![c] = <<{}>>]
                /\ caller_pc' = [caller_pc EXCEPT ![c] = "done"]
                /\ UNCHANGED caller_cols
        /\ UNCHANGED <<columns_cache, db_schema>>
        /\ UNCHANGED <<routeVars, sqlVars, queryVars, builderVars, scriptVars, cols_out, last_return, seen_before>>

\* self._columns_cache[tbl] = cols; return cols
CallerStore(c) ==
    LET tbl == Sanitized[SharedTable]
    IN  /\ caller_pc[c] = "store"
        /\ columns_cache' = [k \in DOMAIN columns_cache \cup {tbl} |->
                                IF k = tbl THEN caller_cols[c] ELSE columns_cache[k]]
        /\ caller_out' = [caller_out EXCEPT ![c] = <<caller_cols[c]>>]
        /\ caller_pc' = [caller_pc EXCEPT ![c] = "done"]
        /\ UNCHANGED <<caller_cols, introspections, db_schema>>
        /\ UNCHANGED <<routeVars, sqlVars, queryVars, builderVars, scriptVars, cols_out, last_return, seen_before>>

NextCallers ==
    \/ \E c \in Callers : CallerEnter(c)
    \/ \E c \in Callers, ok \in BOOLEAN : CallerQuery(c, ok)
    \/ \E c \in Callers : CallerStore(c)
    \/ \E t \in DbTables : AlterSchema(t)

(***************************************************************************)
(* The fallback of the executor (spec 4.6): the column list between SELECT *)
(* and FROM replaced by *, the rest of the statement unchanged             *)
(***************************************************************************)
fallback_sql(sql) ==
    LET u == Upper(sql)
        s0 == SkipSpaces(u, 1)
        froms == {i \in 1..Len(u) : i > s0 + 6 /\ MatchAt(u, i, "FROM")
                                     /\ IsSpace(CharAt(u, i - 1))}
        f == CHOOSE i \in froms : \A j \in froms : i <= j
    IN  IF MatchAt(u, s0, "SELECT") /\ froms # {}
        THEN SubSeq(sql, 1, s0 + 5) \o " * " \o SubSeq(sql, f, Len(sql))
        ELSE sql

(***************************************************************************)
(* api/query.py: POST /query (geo_reason)                                  *)
(*                                                                         *)
(* GeoReasoningService.start_geo_reasoning as the handler calls it, the    *)
(* question field of QueryIn, the fields of QueryOut and                   *)
(* sql_service.run_sql are not in this source tree; they follow the spec.  *)
(***************************************************************************)
QuestionArgs == {"Find all lakes", "   ", ""}

\* a parameter value: an int, or a list of ints
Scalar(v) == [is_list |-> FALSE, v |-> <<v>>]

List(vs) == [is_list |-> TRUE, v |-> vs]

\* step4["params"]: an object (key -> value), or something else
ParamsArgs ==
    { [is_dict |-> TRUE, items |-> <<>>],
      [is_dict |-> TRUE, items |-> [k \in {"l1_id"} |-> Scalar(3)]],
      [is_dict |-> TRUE, items |-> [k \in {"l1_id"} |-> List(<<1, 2>>)]],
      [is_dict |-> TRUE, items |-> [k \in {"l1_id"} |-> List(<<3>>)]],
      [is_dict |-> FALSE, items |-> <<>>] }

FinalSqlArgs ==
    { "SELECT t.name FROM ne_data.t t JOIN m ON 1 = 1 WHERE m.l1_id = %(l1_id)s",
      "  select nme from ne_data.t where l1 = :l1_id ",
      "WITH x AS (SELECT 1) SELECT * FROM x",
      "DROP TABLE x",
      "   ",
      "" }

ErrorClasses == {"ValueError", "RuntimeError", "Exception"}

\* outputs["step3"]["reasons"]: a list, or something else
ReasonsArgs ==
    { [is_list |-> TRUE, v |-> <<"why this table">>], [is_list |-> FALSE, v |-> <<>>] }

\* the reasons each stage gives for its selection
StageReasons == << <<"why L1">>, <<"why L2">>, <<"why this table">>, <<"why this SQL">> >>

\* a return value that is no dict
NoOutputs ==
    [is_dict |-> FALSE,
     step1 |-> [reasons |-> <<>>],
     step2 |-> [reasons |-> <<>>],
     step3 |-> [reasons |-> [is_list |-> FALSE, v |-> <<>>]],
     step4 |-> [final_sql |-> "", params |-> [is_dict |-> TRUE, items |-> <<>>],
                reasons |-> <<>>]]

\* what the resolver does with a question: it raises in one of its four
\* stages, or it returns the outputs of all four
ResolverOutcomes ==
    { [kind |-> "raise", stage |-> k, error |-> e, outputs |-> NoOutputs] :
        k \in 1..4, e \in ErrorClasses }
    \cup
    { [kind |-> "return", stage |-> 4, error |-> "",
       outputs |-> [is_dict |-> TRUE,
                    step1 |-> [reasons |-> StageReasons[1]],
                    step2 |-> [reasons |-> StageReasons[2]],
                    step3 |-> [reasons |-> r],
                    step4 |-> [final_sql |-> f, params |-> p,
                               reasons |-> StageReasons[4]]]] :
        r \in ReasonsArgs, f \in FinalSqlArgs, p \in ParamsArgs }
    \cup
    { [kind |-> "return", stage |-> 4, error |-> "", outputs |-> NoOutputs] }

\* the stages the resolver completed
StagesCompleted(o) == IF o.kind = "raise" THEN o.stage - 1 ELSE 4

IsWordChar(c) == IsIdentChar(c)

\* the end of a match of (\bm\.l1_id\s*)=\s*%\(l1_id\)s at i, as
\* <<position of "=", last position>>, or <<>>
L1IdMatch(sql, i) ==
    LET eq == SkipSpaces(sql, i + 7)
        ph == SkipSpaces(sql, eq + 1)
    IN  IF /\ (i = 1 \/ ~IsWordChar(CharAt(sql, i - 1)))
           /\ MatchAt(sql, i, "m.l1_id")
           /\ MatchAt(sql, eq, "=")
           /\ MatchAt(sql, ph, "%(l1_id)s")
        THEN <<eq, ph + 8>>
        ELSE <<>>

RECURSIVE L1IdPatchFrom(_, _)
L1IdPatchFrom(sql, i) ==
    IF i > Len(sql) THEN ""
    ELSE LET m == L1IdMatch(sql, i)
         IN  IF m # <<>>
             THEN SubSeq(sql, i, m[1] - 1) \o "= ANY(%(l1_id)s)"
                      \o L1IdPatchFrom(sql, m[2] + 1)
             ELSE CharAt(sql, i) \o L1IdPatchFrom(sql, i + 1)

\* re.sub(r"(\bm\.l1_id\s*)=\s*%\(l1_id\)s", r"\1= ANY(%(l1_id)s)", sql)
L1IdPatch(sql) == L1IdPatchFrom(sql, 1)

RECURSIVE ReplaceFrom(_, _, _, _)
ReplaceFrom(s, i, old, new) ==
    IF i > Len(s) THEN ""
    ELSE IF MatchAt(s, i, old)
    THEN new \o ReplaceFrom(s, i + Len(old), old, new)
    ELSE CharAt(s, i) \o ReplaceFrom(s, i + 1, old, new)

\* str.replace(old, new)
Replace(s, old, new) == ReplaceFrom(s, 1, old, new)

RECURSIVE JoinInts(_)
JoinInts(vs) ==
    IF vs = <<>> THEN ""
    ELSE IF Len(vs) = 1 THEN ToString(vs[1])
    ELSE ToString(vs[1]) \o ", " \o JoinInts(Tail(vs))

\* repr(v)
Repr(v) == IF v.is_list THEN "[" \o JoinInts(v.v) \o "]" ELSE ToString(v.v[1])

RECURSIVE WriteParams(_, _, _)
\* for k, v in params.items(): sql_with_params.replace(f":{k}", repr(v))
WriteParams(sql, items, keys) ==
    IF keys = {} THEN sql
    ELSE LET k == CHOOSE x \in keys : TRUE
         IN  WriteParams(Replace(sql, ":" \o k, Repr(items[k])), items, keys \ {k})

\* (mutant) the reasons of all four stages, in stage order
extract_final_reason_AllStages(outs) ==
    outs.step1.reasons \o outs.step2.reasons \o outs.step3.reasons.v
        \o outs.step4.reasons

\* _extract_final_reason(outputs)
extract_final_reason(outs) ==
    IF outs.step3.reasons.is_list THEN outs.step3.reasons.v ELSE <<>>

Raised(cls, msg) ==
    [raised |-> cls, msg |-> msg, sql |-> "", params |-> <<>>]

\* (mutant) _build_reason_sql without the test that the statement is a SELECT
build_reason_sql_AnyStatement(qin_question, o) ==
    LET sql == Strip(o.outputs.step4.final_sql)
    IN  IF Strip(qin_question) = ""
        THEN Raised("ValueError", "'question' is required")
        ELSE IF o.kind = "raise"
        THEN Raised(o.error, "stage " \o ToString(o.stage) \o " failed")
        ELSE IF ~o.outputs.is_dict
        THEN Raised("ValueError", "GeoReasoningService must return an outputs dict")
        ELSE IF sql = ""
        THEN Raised("ValueError", "outputs.step4.final_sql is required")
        ELSE IF ~o.outputs.step4.params.is_dict
        THEN Raised("ValueError", "SQL params must be an object")
        ELSE [raised |-> "", msg |-> "", sql |-> sql, params |-> o.outputs.step4.params.items]

\* _build_reason_sql(qin), given what the resolver does with the question
build_reason_sql(qin_question, o) ==
    LET sql == Strip(o.outputs.step4.final_sql)
    IN  IF Strip(qin_question) = ""
        THEN Raised("ValueError", "'question' is required")
        ELSE IF o.kind = "raise"
        THEN Raised(o.error, "stage " \o ToString(o.stage) \o " failed")
        ELSE IF ~o.outputs.is_dict
        THEN Raised("ValueError", "GeoReasoningService must return an outputs dict")
        ELSE IF sql = ""
        THEN Raised("ValueError", "outputs.step4.final_sql is required")
        ELSE IF ~StartsWith(Lower(sql), "select")
        THEN Raised("ValueError", "Generated SQL must be a SELECT statement")
        ELSE IF ~o.outputs.step4.params.is_dict
        THEN Raised("ValueError", "SQL params must be an object")
        ELSE [raised |-> "", msg |-> "", sql |-> sql, params |-> o.outputs.step4.params.items]

\* _err(code, msg, http): the code is not part of the body
err(code, msg, http) == [status |-> http, body |-> [detail |-> msg]]

\* the statements the first try block can hand on
BuiltStatements ==
    {Strip(f) : f \in FinalSqlArgs} \cup {L1IdPatch(Strip(f)) : f \in FinalSqlArgs}

\* validate_sql_syntax and the fallback rewrite over them, computed once
BuiltValidation ==
    [sql \in BuiltStatements, mq \in QueryLengthArgs, ml \in LimitArgs |->
        validate_sql_syntax(sql, mq, ml)]

BuiltFallback == [sql \in BuiltStatements |-> fallback_sql(sql)]

\* sql_service.run_sql(sql, params) after spec 4.6: validate, execute, on a
\* failure of the store retry once with the SELECT * rewrite
run_sql(sql, store_ok, retry_ok) ==
    LET validation == BuiltValidation[sql, max_query_length, max_limit]
        results == [columns |-> <<"name">>, rows |-> <<<<"Lake Superior">>>>]
    IN  IF ~validation.is_valid
        THEN [ok |-> FALSE, error |-> validation.error_message, results |-> <<>>,
              db |-> <<>>, is_fallback |-> FALSE]
        ELSE IF store_ok
        THEN [ok |-> TRUE, error |-> "", results |-> results,
              db |-> <<sql>>, is_fallback |-> FALSE]
        ELSE IF retry_ok
        THEN [ok |-> TRUE, error |-> "", results |-> results,
              db |-> <<sql, BuiltFallback[sql]>>, is_fallback |-> TRUE]
        ELSE [ok |-> FALSE, error |-> StoreError, results |-> <<>>,
              db |-> <<sql, BuiltFallback[sql]>>, is_fallback |-> FALSE]

\* the first try block of geo_reason as a function of the payload and of what
\* the resolver does: what was raised, or the statement, its parameters, the
\* statement with the parameters written in and the reasons
first_try(payload_question, o) ==
    LET b == build_reason_sql(payload_question, o)
        has_l1 == "l1_id" \in DOMAIN b.params
        sql == IF has_l1 THEN L1IdPatch(b.sql) ELSE b.sql
        params == [k \in DOMAIN b.params |->
                      IF k = "l1_id" /\ ~b.params[k].is_list
                      THEN List(b.params[k].v) ELSE b.params[k]]
    IN  IF b.raised # ""
        THEN [raised |-> b.raised, msg |-> b.msg, sql |-> "", params |-> <<>>,
              sql_with_params |-> "", reasons |-> <<>>]
        ELSE [raised |-> "", msg |-> "", sql |-> sql, params |-> params,
              sql_with_params |-> WriteParams(sql, params, DOMAIN params),
              reasons |-> extract_final_reason(o.outputs)]

\* first_try over the requests in use, computed once
FirstTry ==
    [q \in QuestionArgs, o \in ResolverOutcomes |-> first_try(q, o)]

\* whether the payload carries a question
HasQuestion == [q \in QuestionArgs |-> Strip(q) # ""]

InitQuery ==
    /\ req_pc = "idle"
    /\ req_question = ""
    /\ resolver_out = <<>>
    /\ q_sql = ""
    /\ q_params = <<>>
    /\ q_sql_with_params = ""
    /\ q_reasons = <<>>
    /\ run_log = <<>>
    /\ fallback_used = FALSE
    /\ response = <<>>

\* geo_reason, the first try block: the payload is read, the resolver runs,
\* the statement is patched; any exception is answered at once
GeoReasonBuild(payload_question, o) ==
    LET b == FirstTry[payload_question, o]
    IN  /\ req_pc \in {"idle", "responded"}
        /\ req_question' = payload_question
        /\ resolver_out' = IF HasQuestion[payload_question] THEN <<o>> ELSE <<>>
        /\ run_log' = <<>>
        /\ fallback_used' = FALSE
        /\ q_sql' = b.sql
        /\ q_params' = b.params
        /\ q_sql_with_params' = b.sql_with_params
        /\ q_reasons' = b.reasons
        /\ IF b.raised # ""
           THEN /\ req_pc' = "responded"
                /\ response' =
                      <<CASE b.raised = "RuntimeError" ->
                                err("SERVICE_UNAVAILABLE", b.msg, 503)
                          [] b.raised = "ValueError" ->
                                err("VALIDATION_ERROR", b.msg, 400)
                          [] OTHER -> err("INTERNAL_ERROR", b.msg, 500)>>
           ELSE /\ req_pc' = "built"
                /\ response' = <<>>
        /\ UNCHANGED <<routeVars, sqlVars, columnVars, callerVars, builderVars, scriptVars>>

\* geo_reason, the second try block: the statement is run and answered
GeoReasonRun(store_ok, retry_ok) ==
    LET params == [k \in DOMAIN q_params |->
                      IF k = "l1_id" /\ q_params[k].is_list /\ Len(q_params[k].v) = 1
                      THEN Scalar(q_params[k].v[1]) ELSE q_params[k]]
        resu == run_sql(q_sql, store_ok, retry_ok)
        dict_results == [i \in DOMAIN resu.results.rows |->
                            [c \in Range(resu.results.columns) |->
                                resu.results.rows[i][1]]]
    IN  /\ req_pc = "built"
        /\ req_pc' = "responded"
        /\ q_params' = params
        /\ run_log' = resu.db
        /\ fallback_used' = resu.is_fallback
        /\ response' =
              IF ~resu.ok
              THEN <<err("INTERNAL_ERROR", resu.error, 500)>>
              ELSE <<[status |-> 200,
                      body |-> [sql |-> q_sql_with_params,
                                results |-> dict_results,
                                reasoning |-> q_reasons,
                                model_used |-> "gpt-5-nano",
                                is_fallback |-> FALSE]]>>
        /\ UNCHANGED <<req_question, resolver_out, q_sql, q_sql_with_params, q_reasons>>
        /\ UNCHANGED <<routeVars, sqlVars, columnVars, callerVars, builderVars, scriptVars>>

NextQuery ==
    \/ \E q \in QuestionArgs, o \in ResolverOutcomes : GeoReasonBuild(q, o)
    \/ \E ok \in BOOLEAN, retry \in BOOLEAN : GeoReasonRun(ok, retry)

(***************************************************************************)
(* sql_service.SQLService.build_select_sql                                 *)
(***************************************************************************)
BuilderTables == {"l1_category", "l1_category; --", "no_such_table", "; --"}

ColumnArgs ==
    { <<"id">>, <<"id", "name">>, <<"updated_at">>, <<"*">>, <<"id", "nope">>, <<>> }

\* filters, as the (key, value) pairs of the dict in order
FilterArgs ==
    { <<>>,
      <<<<"name", 7>>>>,
      <<<<"id", 1>>, <<"name", 7>>>>,
      <<<<"na;me", 7>>>>,
      <<<<"nope", 7>>>>,
      <<<<"--", 7>>>> }

LimitOffsetArgs == { <<DefaultLimit, 0>>, <<20000, 5>> }

Keys(filters) == [i \in DOMAIN filters |-> filters[i][1]]

BuilderIdents ==
    BuilderTables \cup UNION {Range(Keys(f)) : f \in FilterArgs}

\* _sanitize_ident over the identifiers in use, computed once
BuilderSanitized == [n \in BuilderIdents |-> sanitize_ident(n)]

\* ph = f"p{i}" for i = 0, 1
ParamNames == <<"p0", "p1">>

RECURSIVE Join(_, _)
\* sep.join(parts)
Join(sep, parts) ==
    IF parts = <<>> THEN ""
    ELSE IF Len(parts) = 1 THEN parts[1]
    ELSE parts[1] \o sep \o Join(sep, Tail(parts))

\* the statement text of build_select_sql for a sanitized table, the columns
\* and the sanitized filter keys
select_sql(tbl, columns, keys) ==
    LET cols_sql == Join(", ", [i \in DOMAIN columns |-> "\"" \o columns[i] \o "\""])
        where_parts == [i \in DOMAIN keys |->
                           "\"" \o keys[i] \o "\" = :" \o ParamNames[i]]
        where_sql == IF where_parts # <<>>
                     THEN " WHERE " \o Join(" AND ", where_parts) ELSE ""
    IN  "SELECT " \o cols_sql \o " FROM \"" \o tbl \o "\"" \o where_sql
            \o " LIMIT :_limit OFFSET :_offset;"

\* select_sql over the arguments in use, computed once
SelectSql ==
    [t \in BuilderTables, c \in ColumnArgs, f \in FilterArgs |->
        select_sql(BuilderSanitized[t], c,
                   [i \in DOMAIN f |-> BuilderSanitized[f[i][1]]])]

NotFoundMessage ==
    [t \in BuilderTables |->
        "Table '" \o BuilderSanitized[t] \o "' not found or has no columns"]

\* the first i for which P(i) holds is the one that raises
FirstBadKey(filters, allowed) ==
    LET bad == {i \in DOMAIN filters :
                   \/ BuilderSanitized[filters[i][1]] = ""
                   \/ BuilderSanitized[filters[i][1]] \notin allowed}
    IN  IF bad = {} THEN 0 ELSE CHOOSE i \in bad : \A j \in bad : i <= j

InitBuilder ==
    /\ build_args = <<>>
    /\ build_out = <<>>

\* SQLService.build_select_sql(table, columns, filters, limit, offset), with
\* validate_table_and_columns and get_table_columns as it calls them: what it
\* raises or returns, the introspection it ran and the cache it leaves
build_select_sql(table, columns, filters, lo, store_ok) ==
    LET tbl == BuilderSanitized[table]
        hit == tbl \in DOMAIN columns_cache
        allowed == IF hit THEN columns_cache[tbl]
                   ELSE IF store_ok THEN Introspect(db_schema, tbl) ELSE {}
        bad == {i \in DOMAIN columns : columns[i] \notin allowed}
        k == FirstBadKey(filters, allowed)
        \* the messages, without the list of columns that follows in two of them
        error == IF tbl = "" THEN "invalid identifier"
                 ELSE IF allowed = {} THEN NotFoundMessage[table]
                 ELSE IF bad # {} THEN "Unknown columns"
                 ELSE IF k = 0 THEN ""
                 ELSE IF BuilderSanitized[filters[k][1]] = "" THEN "invalid identifier"
                 ELSE "Unknown filter column"
        asked == ~(tbl = "" \/ hit)
    IN  [error |-> error,
         out |-> IF error # "" THEN <<>>
                 ELSE <<[sql |-> SelectSql[table, columns, filters],
                         params |-> [i \in DOMAIN filters |->
                                        <<ParamNames[i], filters[i][2]>>]
                                    \o << <<"_limit", lo[1]>>, <<"_offset", lo[2]>> >>]>>,
         db |-> IF asked THEN <<IntrospectionSql>> ELSE <<>>,
         store |-> IF asked THEN <<store_ok>> ELSE <<>>,
         conns |-> IF asked THEN 1 ELSE 0,
         cache |-> IF asked /\ store_ok
                   THEN [n \in DOMAIN columns_cache \cup {tbl} |->
                            IF n = tbl THEN allowed ELSE columns_cache[n]]
                   ELSE columns_cache]

\* sql_service.build_select_sql(table, columns, filters, limit, offset)
BuildSelectSql(table, columns, filters, lo, store_ok) ==
    LET b == build_select_sql(table, columns, filters, lo, store_ok)
    IN  /\ sql_op' = "build_select_sql"
        /\ sql_text' = table
        /\ build_args' = <<columns, filters, lo>>
        /\ sql_raised' = b.error
        /\ db_log' = b.db
        /\ store_log' = b.store
        /\ conn_count' = b.conns
        /\ columns_cache' = b.cache
        /\ build_out' = b.out
        /\ UNCHANGED <<sql_out, validate_log, max_query_length, max_limit>>
        /\ UNCHANGED <<db_schema, cols_out, last_return, seen_before>>
        /\ UNCHANGED <<routeVars, callerVars, queryVars, scriptVars>>

NextBuilder ==
    \/ \E t \in BuilderTables, c \in ColumnArgs, f \in FilterArgs,
          lo \in LimitOffsetArgs, ok \in BOOLEAN : BuildSelectSql(t, c, f, lo, ok)
    \/ ClearCache

(***************************************************************************)
(* Orchestrator.handle_query over a validated QueryIn                      *)
(***************************************************************************)
QueryInTables == {"l1_category", "no_such_table"}

QueryInColumns == { <<"id">>, <<"id", "name">>, <<"updated_at">>, <<"*">>, <<>> }

QueryInFilters == { <<>>, <<<<"name", 7>>>> }

QueryInLimits == LimitOffsetArgs \cup { <<20, 0>>, <<0, 0>> }

\* the requests: table, columns, filters, (limit, offset)
QueryInArgs ==
    [table : QueryInTables, columns : QueryInColumns,
     filters : QueryInFilters, lo : QueryInLimits]

QueryInNotAllowed == [t \in QueryInTables |-> "table '" \o t \o "' is not allowed"]

\* QueryIn.validate(limit_max): the message of the ValueError, "" when it returns
QueryIn_validate(qin, limit_max) ==
    IF qin.table = "" THEN "table is required"
    ELSE IF qin.table \notin ALLOWED_TABLES THEN QueryInNotAllowed[qin.table]
    ELSE IF qin.columns = <<>> THEN "columns must be a non-empty list"
    ELSE IF \E i \in DOMAIN qin.columns : qin.columns[i] = "*"
    THEN "SELECT * is not allowed; list explicit columns"
    ELSE IF ~(1 <= qin.lo[1] /\ qin.lo[1] <= limit_max)
    THEN "limit must be 1~" \o ToString(limit_max)
    ELSE IF qin.lo[2] < 0 THEN "offset must be >= 0"
    ELSE ""

\* validate_sql_syntax over the statements build_select_sql writes, computed once
SelectValidation ==
    [sql \in {SelectSql[t, c, f] :
                 t \in QueryInTables, c \in QueryInColumns, f \in QueryInFilters},
     mq \in QueryLengthArgs, ml \in LimitArgs |->
        validate_sql_syntax(sql, mq, ml)]

\* qin.validate() as the endpoints call it, then Orchestrator.handle_query(qin):
\* build_select_sql, then the module-level execute, which raises where
\* execute_sql failed
HandleQuery(qin, schema_ok, store_ok) ==
    LET invalid == QueryIn_validate(qin, DefaultMaxLimit)
        b == build_select_sql(qin.table, qin.columns, qin.filters, qin.lo, schema_ok)
        sql == b.out[1].sql
        r == execute_sql_after(SelectValidation[sql, max_query_length, max_limit],
                               sql, store_ok)
    IN  /\ sql_op' = "handle_query"
        /\ sql_text' = qin.table
        /\ build_args' = <<qin.columns, qin.filters, qin.lo>>
        /\ IF invalid # ""
           THEN /\ sql_raised' = invalid
                /\ build_out' = <<>>
                /\ sql_out' = <<>>
                /\ db_log' = <<>>
                /\ store_log' = <<>>
                /\ conn_count' = 0
                /\ validate_log' = <<>>
                /\ UNCHANGED columns_cache
           ELSE IF b.error # ""
           THEN /\ sql_raised' = b.error
                /\ build_out' = <<>>
                /\ sql_out' = <<>>
                /\ db_log' = b.db
                /\ store_log' = b.store
                /\ conn_count' = b.conns
                /\ validate_log' = <<>>
                /\ columns_cache' = b.cache
           ELSE /\ sql_raised' = r.result.error
                /\ build_out' = b.out
                /\ sql_out' = IF r.result.success THEN <<r.result>> ELSE <<>>
                /\ db_log' = b.db \o r.db
                /\ store_log' = b.store \o r.store
                /\ conn_count' = b.conns + r.conns
                /\ validate_log' = r.validated
                /\ columns_cache' = b.cache
        /\ UNCHANGED <<max_query_length, max_limit>>
        /\ UNCHANGED <<db_schema, cols_out, last_return, seen_before>>
        /\ UNCHANGED <<routeVars, callerVars, queryVars, scriptVars>>

NextOrchestrator ==
    \/ \E qin \in QueryInArgs, schema_ok \in BOOLEAN, store_ok \in BOOLEAN :
          HandleQuery(qin, schema_ok, store_ok)
    \/ \E ml \in LimitArgs : SetLimits(DefaultMaxQueryLength, ml)
    \/ \E t \in DbTables : AlterSchema(t)
    \/ ClearCache

(***************************************************************************)
(* script/run_init_tasks_llm.py: the four-step pipeline over init_tasks    *)
(***************************************************************************)
TaskTables == {"ne_10m_lakes"}

\* JSON values as the columns of init_tasks hold them
Null == [type |-> "null", keys |-> {}, len |-> 0]

Dict(keys) == [type |-> "dict", keys |-> keys, len |-> Cardinality(keys)]

Array(n) == [type |-> "list", keys |-> {}, len |-> n]

\* bool(v) of Python: None, {} and [] are false
Truthy(v) == v.type # "null" /\ v.len > 0

\* v or {}
OrEmpty(v) == IF Truthy(v) THEN v ELSE Dict({})

\* what the LLM may answer: a JSON object with the fields the steps read, the
\* same inside a Markdown fence, an empty object, an array, or prose
LlmContents == {"object", "fenced object", "empty object", "array", "prose"}

\* the answers of one run, one per step; "error" when llm_service.generate raises
LlmAnswers == LlmContents \cup {"error"}

ResultFields == {"merged_result", "cleaned_result", "display_name", "summary"}

strip_code_fences(content) ==
    IF content = "fenced object" THEN "object" ELSE content

\* _parse_json_output(s): the JSON value, or {"raw": s} when none can be read
parse_json_output(content) ==
    LET cleaned == strip_code_fences(content)
    IN  CASE cleaned = "object" -> Dict(ResultFields)
          [] cleaned = "empty object" -> Dict({})
          [] cleaned = "array" -> Array(1)
          [] OTHER -> Dict({"raw"})

\* the column each step fills
ResultKey == <<"step1_result", "step2_result", "step3_result", "step4_tablecard">>

\* the field step k reads from the result of step k - 1
RequiredField == <<"", "", "merged_result", "cleaned_result">>

\* step3 and step4 raise before the LLM is asked when their input is no dict
\* or lacks the field
StepRaisesEarly(k, input) ==
    k \in {3, 4} /\ (input.type # "dict" \/ RequiredField[k] \notin input.keys)

\* what step k returns for the parsed answer
StepFields(k, parsed) ==
    IF k = 4
    THEN ("step4_tablecard" :> parsed) @@ ("is_done" :> TRUE) @@ ("status" :> "done")
    ELSE (ResultKey[k] :> parsed)

\* step1..step4 on the table dict: whether it raised, the call_llm invocation
\* it made and the fields it returns
step(k, table, answer) ==
    LET input == IF k = 1 THEN Null ELSE OrEmpty(table[ResultKey[k - 1]])
        call(ok) == [step |-> k, input |-> input, ok |-> ok]
    IN  IF StepRaisesEarly(k, input)
        THEN [raised |-> TRUE, calls |-> <<>>, fields |-> <<>>]
        ELSE IF answer = "error"
        THEN [raised |-> TRUE, calls |-> <<call(FALSE)>>, fields |-> <<>>]
        ELSE [raised |-> FALSE, calls |-> <<call(TRUE)>>,
              fields |-> StepFields(k, parse_json_output(answer))]

\* update_task(table_name, fields) on the row
update_task(row, fields) == fields @@ row

\* a row as import_table_name inserts it
NewTask(status) ==
    [status |-> status, is_done |-> FALSE,
     step1_result |-> Null, step2_result |-> Null, step3_result |-> Null,
     step4_tablecard |-> Null]

InitTasks ==
    /\ init_tasks = [t \in TaskTables |-> NewTask("pending")]
    /\ l3_cards = {}
    /\ task_pc = 0
    /\ task_table = ""
    /\ task_before = <<>>
    /\ task_fields = <<>>
    /\ task_dry_run = FALSE
    /\ task_calls = <<>>
    /\ task_writes = <<>>
    /\ task_raised = FALSE

\* fetch_task(table_name, only_pending)
fetch_task(t, only_pending) ==
    IF init_tasks[t].status # "skip" /\ (only_pending => ~init_tasks[t].is_done)
    THEN <<init_tasks[t]>> ELSE <<>>

\* main with --table t [--pending] [--dry-run]: the tasks are fetched and
\* process_table begins on the row
RunInitTasks(t, only_pending, dry_run) ==
    LET tasks == fetch_task(t, only_pending)
    IN  /\ task_pc = 0
        /\ task_pc' = IF tasks = <<>> THEN 0 ELSE 1
        /\ task_table' = t
        /\ task_before' = tasks
        /\ task_fields' = <<>>
        /\ task_dry_run' = dry_run
        /\ task_calls' = <<>>
        /\ task_writes' = <<>>
        /\ task_raised' = FALSE
        /\ UNCHANGED <<init_tasks, l3_cards>>
        /\ UNCHANGED <<routeVars, sqlVars, columnVars, callerVars, queryVars, builderVars>>
        /\ UNCHANGED <<mappingVars, importVars, decoderVars>>

\* the except branch of process_table: the row is marked failed unless dry_run
MarkFailed(row) ==
    /\ task_pc' = 0
    /\ task_raised' = TRUE
    /\ IF task_dry_run
       THEN /\ init_tasks' = [init_tasks EXCEPT ![task_table] = row]
            /\ task_writes' = task_writes
       ELSE /\ init_tasks' = [init_tasks EXCEPT ![task_table] =
                                  update_task(row, ("status" :> "failed"))]
            /\ task_writes' = Append(task_writes,
                                     [op |-> "update_task", fields |-> {"status"}])

\* process_table, the guarded step k = task_pc: skipped when the row holds a
\* result, run otherwise; an exception goes to the except branch
ProcessTableStep(answer) ==
    LET k == task_pc
        row == task_before[1]
        r == step(k, task_fields @@ row, answer)
    IN  /\ task_pc \in 1..4
        /\ IF Truthy(row[ResultKey[k]])
           THEN /\ task_pc' = k + 1
                /\ UNCHANGED <<task_fields, task_calls, task_writes, task_raised,
                               init_tasks>>
           ELSE /\ task_calls' = task_calls \o r.calls
                /\ IF r.raised
                   THEN /\ MarkFailed(init_tasks[task_table])
                        /\ UNCHANGED task_fields
                   ELSE /\ task_pc' = k + 1
                        /\ task_fields' = r.fields @@ task_fields
                        /\ UNCHANGED <<task_writes, task_raised, init_tasks>>
        /\ UNCHANGED <<l3_cards, task_table, task_before, task_dry_run>>
        /\ UNCHANGED <<routeVars, sqlVars, columnVars, callerVars, queryVars, builderVars>>
        /\ UNCHANGED <<mappingVars, importVars, decoderVars>>

\* process_table after the four steps: update_task with the collected fields,
\* then save_l3_table with the table card, each in its own transaction
ProcessTableWrite(save_ok) ==
    LET wrote == ~task_dry_run /\ DOMAIN task_fields # {}
        updated == IF wrote THEN update_task(init_tasks[task_table], task_fields)
                   ELSE init_tasks[task_table]
        written == IF wrote
                   THEN <<[op |-> "update_task", fields |-> DOMAIN task_fields]>>
                   ELSE <<>>
        saving == ~task_dry_run /\ "step4_tablecard" \in DOMAIN task_fields
        \* save_l3_table calls llm_output.get: an array raises AttributeError
        save_raises == saving /\ (task_fields["step4_tablecard"].type # "dict"
                                  \/ ~save_ok)
    IN  /\ task_pc = 5
        /\ IF save_raises
           THEN /\ task_pc' = 0
                /\ task_raised' = TRUE
                /\ init_tasks' = [init_tasks EXCEPT ![task_table] =
                                      update_task(updated, ("status" :> "failed"))]
                /\ task_writes' = written \o
                                     <<[op |-> "update_task", fields |-> {"status"}]>>
                /\ UNCHANGED l3_cards
           ELSE /\ task_pc' = 0
                /\ task_raised' = FALSE
                /\ init_tasks' = [init_tasks EXCEPT ![task_table] = updated]
                /\ task_writes' = written \o
                      (IF saving
                       THEN <<[op |-> "save_l3_table", fields |-> {"step4_tablecard"}]>>
                       ELSE <<>>)
                /\ l3_cards' = IF saving THEN l3_cards \cup {task_table} ELSE l3_cards
        /\ UNCHANGED <<task_table, task_before, task_fields, task_dry_run, task_calls>>
        /\ UNCHANGED <<routeVars, sqlVars, columnVars, callerVars, queryVars, builderVars>>
        /\ UNCHANGED <<mappingVars, importVars, decoderVars>>

NextTasks ==
    \/ \E t \in TaskTables, only_pending \in BOOLEAN, dry_run \in BOOLEAN :
          RunInitTasks(t, only_pending, dry_run)
    \/ \E answer \in LlmAnswers : ProcessTableStep(answer)
    \/ \E save_ok \in BOOLEAN : ProcessTableWrite(save_ok)

(***************************************************************************)
(* script/import_three_level_mapping.py                                    *)
(***************************************************************************)
\* the JSON documents: a list of L1 items, each with its L2 cards, each with
\* the names of its L3 tables
WaterItem ==
    [name |-> "Water", l2 |-> <<[name |-> "Lakes", l3 |-> <<"ne_10m_lakes">>]>>]

LandItem ==
    [name |-> "Land",
     l2 |-> <<[name |-> "Lakes", l3 |-> <<"ne_10m_lakes", "no_such_table">>],
              [name |-> "Roads", l3 |-> <<"ne_10m_roads">>]>>]

MappingArgs ==
    { <<>>, <<WaterItem>>, <<LandItem>>, <<WaterItem, LandItem>>, <<LandItem, WaterItem>> }

L3Rows == { [id |-> 100, table_name |-> "ne_10m_lakes"],
            [id |-> 101, table_name |-> "ne_10m_roads"] }

EmptyDb == [l1 |-> {}, l2 |-> {}, m12 |-> {}, m23 |-> {}, seq1 |-> 1, seq2 |-> 1]

\* clear_existing_data(dry_run)
clear_existing_data(db, dry_run) == IF dry_run THEN db ELSE EmptyDb

\* SELECT id ... WHERE name = :name, else INSERT ... RETURNING id
get_or_create(rows, seq, name) ==
    IF \E r \in rows : r.name = name
    THEN [rows |-> rows, seq |-> seq, id |-> (CHOOSE r \in rows : r.name = name).id]
    ELSE [rows |-> rows \cup {[id |-> seq, name |-> name]}, seq |-> seq + 1, id |-> seq]

\* get_l3_ids(table_names)
get_l3_ids(l3, table_names) ==
    {r.id : r \in {x \in l3 : x.table_name \in Range(table_names)}}

\* the loop over the L2 cards of one L1 item, from card i on
RECURSIVE process_l2_items(_, _, _, _, _)
process_l2_items(db, l3, l1_id, l2_items, i) ==
    IF i > Len(l2_items) THEN db
    ELSE LET c == get_or_create(db.l2, db.seq2, l2_items[i].name)
             l3_ids == get_l3_ids(l3, l2_items[i].l3)
         IN  process_l2_items(
                 [db EXCEPT !.l2 = c.rows, !.seq2 = c.seq,
                            !.m12 = @ \cup {<<l1_id, c.id>>},
                            !.m23 = @ \cup {<<c.id, x>> : x \in l3_ids}],
                 l3, l1_id, l2_items, i + 1)

\* the loop of process_mapping over the L1 items, from item i on; the item
\* fail_at meets an SQLAlchemyError in get_or_create_l1 and is skipped
RECURSIVE process_l1_items(_, _, _, _, _)
process_l1_items(db, l3, items, i, fail_at) ==
    IF i > Len(items) THEN db
    ELSE IF i = fail_at THEN process_l1_items(db, l3, items, i + 1, fail_at)
    ELSE LET c == get_or_create(db.l1, db.seq1, items[i].name)
         IN  process_l1_items(
                 process_l2_items([db EXCEPT !.l1 = c.rows, !.seq1 = c.seq],
                                  l3, c.id, items[i].l2, 1),
                 l3, items, i + 1, fail_at)

\* process_mapping(mapping, dry_run): every writer returns at once under dry_run
process_mapping(db, l3, mapping, dry_run, fail_at) ==
    LET cleared == clear_existing_data(db, dry_run)
    IN  IF dry_run THEN cleared
        ELSE process_l1_items(cleared, l3, mapping, 1, fail_at)

\* main(json_file, --dry-run, --keep-existing) on the tables
import_mapping(db, l3, mapping, keep_existing, dry_run, fail_at) ==
    process_mapping(IF keep_existing THEN db ELSE clear_existing_data(db, dry_run),
                    l3, mapping, dry_run, fail_at)

\* the catalog a standard import of the two items leaves
InitMapping ==
    /\ map_db = import_mapping(EmptyDb, L3Rows, <<WaterItem, LandItem>>, FALSE, FALSE, 0)
    /\ map_l3 = L3Rows
    /\ map_before = <<>>
    /\ map_args = <<>>

ImportMapping(mapping, keep_existing, dry_run, fail_at) ==
    /\ map_before' = <<[db |-> map_db, l3 |-> map_l3]>>
    /\ map_args' = <<[mapping |-> mapping, keep_existing |-> keep_existing,
                      dry_run |-> dry_run]>>
    /\ map_db' = import_mapping(map_db, map_l3, mapping, keep_existing, dry_run, fail_at)
    /\ UNCHANGED map_l3
    /\ UNCHANGED <<routeVars, sqlVars, columnVars, callerVars, queryVars, builderVars>>
    /\ UNCHANGED <<taskVars, importVars, decoderVars>>

NextMapping ==
    \E mapping \in MappingArgs, keep_existing \in BOOLEAN, dry_run \in BOOLEAN,
       fail_at \in 0..2 :
        ImportMapping(mapping, keep_existing, dry_run, fail_at)

(***************************************************************************)
(* script/import_table_name.py                                             *)
(***************************************************************************)
\* fetch_tables(): the tables of the schema ne_data, ordered by name
NeTables == <<"ne_10m_lakes", "ne_empty">>

\* table_has_rows("ne_data", table)
table_has_rows(table) == table = "ne_10m_lakes"

StatusArgs == {"pending", "skip"}

SampleLimitArgs == {0, 10}

\* the command lines
ImportArgs ==
    [dry_run : BOOLEAN, only_sample : BOOLEAN, no_schema : BOOLEAN,
     status : StatusArgs, sample_limit : SampleLimitArgs]

\* a statement as the log keeps it
Stmt(kind, target) == [kind |-> kind, target |-> target]

\* ensure_sample_data_jsonb / ensure_schema_definition_jsonb: ADD COLUMN IF
\* NOT EXISTS, then the DO block that alters the type unless it is jsonb
ensure_jsonb(columns, col) ==
    [columns |-> [columns EXCEPT ![col] = "jsonb"],
     log |-> <<Stmt("ALTER TABLE ADD COLUMN", col), Stmt("DO ALTER COLUMN TYPE", col)>>]

\* the rows that are targets: status <> 'skip' and the column NULL or empty
Targets(rows, col) ==
    SelectSeq(NeTables,
              LAMBDA t : /\ rows[t] # <<>>
                         /\ rows[t][1].status # "skip"
                         /\ rows[t][1][col] \in {"null", "empty"})

\* upsert_and_get_sampling_targets(all_tables, init_status, insert_missing);
\* an inserted row takes the column default '[]' of sample_data
upsert_and_get_sampling_targets(rows, init_status, insert_missing) ==
    LET missing == SelectSeq(NeTables, LAMBDA t : rows[t] = <<>>)
        inserted == [t \in DOMAIN rows |->
                        IF rows[t] = <<>>
                        THEN <<[status |-> init_status, sample_data |-> "empty",
                                schema_definition |-> "null"]>>
                        ELSE rows[t]]
    IN  IF insert_missing
        THEN [rows |-> inserted,
              log |-> <<Stmt("INSERT", "init_tasks")>>,
              \* the targets CTE reads the snapshot taken before the INSERT
              targets |-> Targets(rows, "sample_data")]
        ELSE [rows |-> rows,
              log |-> <<Stmt("SELECT", "init_tasks")>>,
              targets |-> Targets(rows, "sample_data")]

\* fill_sample_data_for_tables(tables, limit, dry_run)
fill_sample_data_for_tables(rows, tables, limit, dry_run) ==
    LET done == SelectSeq(tables, LAMBDA t : table_has_rows(t) /\ ~dry_run)
    IN  [rows |-> [t \in DOMAIN rows |->
                      IF t \in Range(done)
                      THEN <<[rows[t][1] EXCEPT
                                 !.sample_data = IF limit = 0 THEN "empty" ELSE "filled",
                                 !.status = "sampled"]>>
                      ELSE rows[t]],
         log |-> [i \in DOMAIN done |-> Stmt("UPDATE sample_data", done[i])]]

\* fill_schema_definition_for_tables(tables, dry_run)
fill_schema_definition_for_tables(columns, rows, tables, dry_run) ==
    LET e == ensure_jsonb(columns, "schema_definition")
        done == IF dry_run THEN <<>> ELSE tables
    IN  [columns |-> e.columns,
         rows |-> [t \in DOMAIN rows |->
                      IF t \in Range(done)
                      THEN <<[rows[t][1] EXCEPT !.schema_definition = "filled"]>>
                      ELSE rows[t]],
         log |-> e.log \o [i \in DOMAIN done |-> Stmt("UPDATE schema_definition", done[i])]]

\* main(): what it leaves in the columns and rows, and the statements it ran
import_table_name(columns, rows, args) ==
    LET e1 == ensure_jsonb(columns, "sample_data")
        e2 == ensure_jsonb(e1.columns, "schema_definition")
        u == upsert_and_get_sampling_targets(
                 rows, args.status, ~args.only_sample /\ ~args.dry_run)
        f == fill_sample_data_for_tables(u.rows, u.targets, args.sample_limit,
                                         args.dry_run)
        g == fill_schema_definition_for_tables(
                 e2.columns, f.rows, Targets(f.rows, "schema_definition"), args.dry_run)
        \* get_existing_task_tables(), for the report of a dry run
        existing == IF args.dry_run /\ ~args.only_sample
                    THEN <<Stmt("SELECT", "init_tasks")>> ELSE <<>>
        first == e1.log \o e2.log \o <<Stmt("SELECT", "information_schema.tables")>>
                     \o u.log \o existing \o f.log
    IN  IF args.no_schema
        THEN [columns |-> e2.columns, rows |-> f.rows, log |-> first]
        ELSE [columns |-> g.columns, rows |-> g.rows,
              log |-> first \o <<Stmt("SELECT", "init_tasks")>> \o g.log]

InitImport ==
    /\ imp_columns = [c \in {"sample_data", "schema_definition"} |->
                         IF c = "sample_data" THEN "text" ELSE "missing"]
    /\ imp_rows = [t \in Range(NeTables) |-> <<>>]
    /\ imp_before = <<>>
    /\ imp_args = <<>>
    /\ imp_log = <<>>

ImportTableName(args) ==
    LET r == import_table_name(imp_columns, imp_rows, args)
    IN  /\ imp_before' = <<[columns |-> imp_columns, rows |-> imp_rows]>>
        /\ imp_args' = <<args>>
        /\ imp_columns' = r.columns
        /\ imp_rows' = r.rows
        /\ imp_log' = r.log
        /\ UNCHANGED <<routeVars, sqlVars, columnVars, callerVars, queryVars, builderVars>>
        /\ UNCHANGED <<taskVars, mappingVars, decoderVars>>

NextImport == \E args \in ImportArgs : ImportTableName(args)

(***************************************************************************)
(* routing_service.parse_json_safely                                       *)
(* A text is a sequence of tokens: the code fence, the tag json, a line    *)
(* break, the JSON punctuation, two string literals, two numbers and a     *)
(* word of prose.                                                          *)
(***************************************************************************)
\* the code-fence marker of Markdown, three backticks
Fence == "fence"

Whitespace == {"nl"}

StringTokens == {"a", "b"}

NumberTokens == {"1", "2"}

\* the JSON texts a classifier may send, and texts that are no JSON
BodyArgs ==
    { <<"{", "a", ":", "1", "}">>,
      <<"{", "}">>,
      <<"[", "1", ",", "2", "]">>,
      <<"[", "{", "a", ":", "1", "}", ",", "{", "b", ":", "2", "}", "]">>,
      <<"[", "{", "a", ":", "1", "}", "]">>,
      <<"{", "a", ":", "[", "1", ",", "2", "]", "}">>,
      <<"{", "a", ":", "{", "b", ":", "2", "}", "}">>,
      <<"1">>,
      <<"Sure">>,
      <<"{", "a", ":", "1">>,
      <<>> }

ProseArgs == { <<>>, <<"Sure">> }

\* the body with prose around it, bare or inside a fence with or without tag
TextArgs ==
    UNION { { pre \o b \o post,
              <<Fence, "nl">> \o pre \o b \o post \o <<"nl", Fence>>,
              <<Fence, "json", "nl">> \o pre \o b \o post \o <<"nl", Fence, "nl">> }
            : pre \in ProseArgs, b \in BodyArgs, post \in ProseArgs }

\* str.strip()
RECURSIVE strip(_)
strip(s) ==
    IF s = <<>> THEN s
    ELSE IF Head(s) \in Whitespace THEN strip(Tail(s))
    ELSE IF s[Len(s)] \in Whitespace THEN strip(SubSeq(s, 1, Len(s) - 1))
    ELSE s

\* str.find(tok) and str.rfind(tok), 0 when absent
find(s, tok) ==
    IF \E i \in DOMAIN s : s[i] = tok
    THEN CHOOSE i \in DOMAIN s : s[i] = tok /\ \A j \in 1..(i - 1) : s[j] # tok
    ELSE 0

rfind(s, tok) ==
    IF \E i \in DOMAIN s : s[i] = tok
    THEN CHOOSE i \in DOMAIN s : s[i] = tok /\ \A j \in (i + 1)..Len(s) : s[j] # tok
    ELSE 0

\* a JSON value: an object ("obj", members), a member (key, <<value>>), an
\* array ("arr", elements), a string or a number
JsonValue(t, s, items) == [t |-> t, s |-> s, items |-> items]

NoValue == JsonValue("none", "", <<>>)

Failed == [ok |-> FALSE, value |-> NoValue, next |-> 0]

RECURSIVE skip_ws(_, _)
skip_ws(toks, i) ==
    IF i <= Len(toks) /\ toks[i] \in Whitespace THEN skip_ws(toks, i + 1) ELSE i

\* the JSON grammar, as json.loads reads it
RECURSIVE parse_value(_, _), parse_members(_, _, _), parse_elements(_, _, _)
parse_value(toks, i0) ==
    LET i == skip_ws(toks, i0)
        j == skip_ws(toks, i + 1)
    IN  IF i > Len(toks) THEN Failed
        ELSE IF toks[i] \in StringTokens
        THEN [ok |-> TRUE, value |-> JsonValue("str", toks[i], <<>>), next |-> i + 1]
        ELSE IF toks[i] \in NumberTokens
        THEN [ok |-> TRUE, value |-> JsonValue("num", toks[i], <<>>), next |-> i + 1]
        ELSE IF toks[i] = "{"
        THEN IF j <= Len(toks) /\ toks[j] = "}"
             THEN [ok |-> TRUE, value |-> JsonValue("obj", "", <<>>), next |-> j + 1]
             ELSE parse_members(toks, j, <<>>)
        ELSE IF toks[i] = "["
        THEN IF j <= Len(toks) /\ toks[j] = "]"
             THEN [ok |-> TRUE, value |-> JsonValue("arr", "", <<>>), next |-> j + 1]
             ELSE parse_elements(toks, j, <<>>)
        ELSE Failed

\* "key" : value, then "," and the next member, or "}"
parse_members(toks, i, acc) ==
    LET c == skip_ws(toks, i + 1)
        v == parse_value(toks, c + 1)
        e == skip_ws(toks, v.next)
        members == Append(acc, JsonValue("member", toks[i], <<v.value>>))
    IN  IF i > Len(toks) \/ toks[i] \notin StringTokens THEN Failed
        ELSE IF c > Len(toks) \/ toks[c] # ":" THEN Failed
        ELSE IF ~v.ok \/ e > Len(toks) THEN Failed
        ELSE IF toks[e] = "}"
        THEN [ok |-> TRUE, value |-> JsonValue("obj", "", members), next |-> e + 1]
        ELSE IF toks[e] = ","
        THEN parse_members(toks, skip_ws(toks, e + 1), members)
        ELSE Failed

\* value, then "," and the next element, or "]"
parse_elements(toks, i, acc) ==
    LET v == parse_value(toks, i)
        e == skip_ws(toks, v.next)
        elements == Append(acc, v.value)
    IN  IF ~v.ok \/ e > Len(toks) THEN Failed
        ELSE IF toks[e] = "]"
        THEN [ok |-> TRUE, value |-> JsonValue("arr", "", elements), next |-> e + 1]
        ELSE IF toks[e] = ","
        THEN parse_elements(toks, e + 1, elements)
        ELSE Failed

\* json.loads(s): the value, or that JSONDecodeError was raised
json_loads(toks) ==
    LET v == parse_value(toks, 1)
    IN  IF v.ok /\ skip_ws(toks, v.next) > Len(toks)
        THEN [ok |-> TRUE, value |-> v.value]
        ELSE [ok |-> FALSE, value |-> NoValue]

\* parse_json_safely(text)
parse_json_safely(text) ==
    LET s0 == strip(text)
        rest == Tail(s0)
        close == find(rest, Fence)
        \* s.split(fence, 2): three parts when a second fence follows, else two
        s1 == IF s0 # <<>> /\ Head(s0) = Fence
              THEN IF close > 0 THEN SubSeq(rest, 1, close - 1) ELSE rest
              ELSE s0
        s == strip(s1)
        start == find(s, "{")
        end == rfind(s, "}")
        candidate == IF start # 0 /\ end # 0 /\ end > start
                     THEN SubSeq(s, start, end) ELSE s
    IN  json_loads(candidate)

\* parse_json_safely over the texts in use, computed once
Decoded == [text \in TextArgs |-> parse_json_safely(text)]

InitDecoder ==
    /\ dec_text = <<>>
    /\ dec_out = <<>>

\* d = parse_json_safely(r.content)
ParseJsonSafely(text) ==
    /\ dec_text' = text
    /\ dec_out' = <<Decoded[text]>>
    /\ UNCHANGED <<routeVars, sqlVars, columnVars, callerVars, queryVars, builderVars>>
    /\ UNCHANGED <<taskVars, mappingVars, importVars>>

NextDecoder == \E text \in TextArgs : ParseJsonSafely(text)

(***************************************************************************)
(* Specifications                                                          *)
(***************************************************************************)
Init ==
    InitRoute /\ InitSql /\ InitColumns /\ InitCallers /\ InitQuery /\ InitBuilder
    /\ InitTasks /\ InitMapping /\ InitImport /\ InitDecoder

SpecRoute == Init /\ [][NextRoute]_vars

SpecSql == Init /\ [][NextSql]_vars

SpecColumns == Init /\ [][NextColumns]_vars

SpecCallers == Init /\ [][NextCallers]_vars

SpecQuery == Init /\ [][NextQuery]_vars

SpecBuilder == Init /\ [][NextBuilder]_vars

SpecOrchestrator == Init /\ [][NextOrchestrator]_vars

SpecTasks == Init /\ [][NextTasks]_vars

SpecMapping == Init /\ [][NextMapping]_vars

SpecImport == Init /\ [][NextImport]_vars

SpecDecoder == Init /\ [][NextDecoder]_vars

(***************************************************************************)
(* Claims about routing_service.route                                      *)
(***************************************************************************)
StageOrder == <<"CATEGORY", "CARD", "TABLE", "STATEMENT">>

IsPrefix(s, t) == Len(s) <= Len(t) /\ SubSeq(t, 1, Len(s)) = s

\* C1: in one run of route the stages execute in the order CATEGORY, CARD,
\* TABLE, STATEMENT, none skipped and none re-entered, with one classifier
\* call per stage; a run that raised returned nothing (no partial result),
\* and a run returns a result only after all four stages succeeded.
C1_StagesInOrder ==
    /\ IsPrefix(entered, StageOrder)
    /\ [i \in DOMAIN llm_calls |-> llm_calls[i].stage] = entered
    /\ rpc \in {"CATEGORY", "CARD", "TABLE", "STATEMENT"}
          => /\ Len(entered) < Len(StageOrder)
             /\ StageOrder[Len(entered) + 1] = rpc
             /\ Len(outputs) = Len(entered)
             /\ route_result = <<>>
    /\ rpc = "ERROR"
          => /\ route_result = <<>>
             /\ route_error # ""
             /\ Len(outputs) = Len(entered) - 1
    /\ rpc = "DONE"
          => /\ entered = StageOrder
             /\ Len(outputs) = Len(StageOrder)
             /\ route_error = ""
             /\ route_result = <<[inputs |-> llm_calls, outputs |-> outputs]>>
    /\ (route_result # <<>> /\ ~from_cache) => rpc = "DONE"

\* a run failed at the TABLE stage after two stages had succeeded
C1_Witness ==
    /\ rpc = "ERROR"
    /\ entered = <<"CATEGORY", "CARD", "TABLE">>
    /\ Len(outputs) = 2

InRange(sel, candidates) ==
    /\ Len(sel) \in 1..2
    /\ Range(sel) \subseteq Ids(candidates)

\* C2: the run goes past the CATEGORY stage (the CARD stage) only with a
\* selection of 1 or 2 ids, all of them candidates of that stage, and only
\* candidate ids are used to look up children.
C2_SelectionInRange ==
    /\ rpc \in {"CARD", "TABLE", "STATEMENT", "DONE"} => InRange(l1_ids, l1_list)
    /\ rpc \in {"TABLE", "STATEMENT", "DONE"} => InRange(l2_ids, l2_all)
    /\ \A i \in DOMAIN lookups :
          /\ lookups[i].fn = "get_l2_cards_by_l1" => lookups[i].id \in Ids(l1_list)
          /\ lookups[i].fn = "get_l3_tables_by_l2" => lookups[i].id \in Ids(l2_all)

TableNames(rows) == {rows[i].table_name : i \in DOMAIN rows}

\* C3: a run that reaches the STATEMENT stage selected a table of the
\* candidate list of the TABLE stage, and only the schema of such a table
\* is read.
C3_TableIsCandidate ==
    /\ rpc \in {"STATEMENT", "DONE"} => table_name \in TableNames(l3_all)
    /\ Range(schema_fetches) \subseteq TableNames(l3_all)

\* C4: with no card reachable from the selected categories the run fails at
\* the CARD stage: the classifier is never called with an empty candidate
\* list there, and the TABLE and STATEMENT stages do not run.
C4_EmptyCardsFail ==
    /\ \A i \in DOMAIN llm_calls :
          llm_calls[i].stage = "CARD" => llm_calls[i].candidates # <<>>
    /\ (Len(entered) >= 2 /\ l2_all = <<>>) => (rpc = "ERROR" /\ entered = <<"CATEGORY", "CARD">>)

(***************************************************************************)
(* Claims about the executor (SpecSql)                                     *)
(***************************************************************************)
ExecutorOps == {"execute_sql", "validate_and_execute", "execute"}

\* the SELECT * rewrite of each statement
Fallback == [sql \in StatementArgs |-> fallback_sql(sql)]

C7_FallbackRetry ==
    (sql_op \in ExecutorOps /\ store_log # <<>> /\ ~store_log[1]) =>
        /\ Len(db_log) = 2
        /\ db_log[2] = Fallback[db_log[1]]

\* the statements that hold a ";"
WithSemicolon == {sql \in StatementArgs : Contains(sql, ";")}

\* C12: the validator rejects every statement whose text contains a ";"
\* anywhere (a single trailing ";" included) and accepts SELECT 1.
C12_NoSemicolon ==
    sql_op \in ExecutorOps =>
        /\ sql_text \in WithSemicolon => ~validate_log[1].is_valid
        /\ sql_text = "SELECT 1" => validate_log[1].is_valid

\* kw occurs in t as a token: no word character on either side of it
TokenAt(t, i, kw) ==
    /\ MatchAt(t, i, kw)
    /\ i = 1 \/ ~IsIdentChar(CharAt(t, i - 1))
    /\ i + Len(kw) > Len(t) \/ ~IsIdentChar(CharAt(t, i + Len(kw)))

\* the statements in which a banned keyword occurs as a token
WithBannedToken ==
    {sql \in StatementArgs :
        \E kw \in dangerous_keywords, i \in 1..Len(sql) : TokenAt(Upper(sql), i, kw)}

\* the statements that reach the keyword check under a length cap
ReachKeywordCheck ==
    [mq \in QueryLengthArgs |->
        {sql \in StatementArgs : Strip(sql) # "" /\ Len(sql) <= mq}]

\* C13: the banned-keyword check matches whole tokens: a statement is
\* rejected by it if and only if a banned keyword occurs in it as a token; an
\* identifier that merely contains a keyword (updated_at) is not rejected.
C13_KeywordTokens ==
    (sql_op \in ExecutorOps /\ sql_text \in ReachKeywordCheck[max_query_length]) =>
        (sql_out[1].error = "Dangerous SQL operations are not allowed"
            <=> sql_text \in WithBannedToken)

(***************************************************************************)
(* Claims about the column cache (SpecColumns)                             *)
(***************************************************************************)
\* C10: after one get_table_columns(T) call has completed, every later
\* get_table_columns(T) call returns the same column set without opening a
\* database connection, until clear_cache is called.
C10_ComputeOnce ==
    (sql_op = "get_table_columns" /\ sql_raised = "" /\ seen_before # <<>>) =>
        /\ cols_out = seen_before[1]
        /\ conn_count = 0

\* C11: when introspection cannot reach the store, get_table_columns fails
\* with an error that propagates to the caller (it does not return an empty
\* column set), and the query is not retried.
C11_UnreachableStoreRaises ==
    (sql_op = "get_table_columns" /\ store_log # <<>> /\ ~store_log[1]) =>
        /\ sql_raised # ""
        /\ Len(db_log) = 1

NotAllowedMessage == [t \in TableArgs |-> "table '" \o t \o "' is not allowed"]

\* C20: get_columns accepts only the names in ALLOWED_TABLES, compared
\* case-sensitively: for any other name it raises ValueError "table '<name>'
\* is not allowed" before any database access, and caches nothing for it.
C20_OnlyAllowedTables ==
    (sql_op = "get_table_columns" /\ sql_text \notin ALLOWED_TABLES) =>
        /\ sql_raised = NotAllowedMessage[sql_text]
        /\ conn_count = 0
        /\ Sanitized[sql_text] \notin DOMAIN columns_cache

(***************************************************************************)
(* Claims about concurrent callers of the column cache (SpecCallers)       *)
(***************************************************************************)
\* C9: for N concurrent callers of get_table_columns for the same table that
\* is not yet cached, exactly one introspection query is issued and all N
\* callers observe the same column set.
C9_SingleFlight ==
    (\A c \in Callers : caller_pc[c] = "done") =>
        /\ introspections = 1
        /\ \A c, d \in Callers : caller_out[c] = caller_out[d]

(***************************************************************************)
(* Claims about POST /query (SpecQuery)                                    *)
(***************************************************************************)
\* resolution raises: in a stage, or for what the STATEMENT stage handed back
NoStatement == {f \in FinalSqlArgs : Strip(f) = ""}

NoSelect == {f \in FinalSqlArgs : ~StartsWith(Lower(Strip(f)), "select")}

ResolutionRaises(o) ==
    \/ o.kind = "raise"
    \/ ~o.outputs.is_dict
    \/ o.outputs.step4.final_sql \in NoStatement
    \/ o.outputs.step4.final_sql \in NoSelect

IsIdentStart(c) == IsIdentChar(c) /\ ~IsDigit(c)

\* the identifiers that match ^[A-Za-z_][A-Za-z0-9_]*$
WellFormed ==
    {n \in BuilderIdents :
        /\ Len(n) >= 1
        /\ IsIdentStart(CharAt(n, 1))
        /\ \A i \in 1..Len(n) : IsIdentChar(CharAt(n, i))}

\* C14: build_select_sql raises for any identifier (table name, filter key)
\* that does not match ^[A-Za-z_][A-Za-z0-9_]*$; such an identifier is never
\* rewritten into a different one and used in the statement.
C14_MalformedIdentifierRaises ==
    (/\ sql_op = "build_select_sql"
     /\ \/ sql_text \notin WellFormed
        \/ \E i \in DOMAIN build_args[2] : build_args[2][i][1] \notin WellFormed) =>
        /\ build_out = <<>>
        /\ sql_raised # ""

\* C15: build_select_sql returns a statement only if every requested column
\* and every filter column is a member of the cached column set of the table.
C15_KnownColumnsOnly ==
    (sql_op = "build_select_sql" /\ build_out # <<>>) =>
        LET tbl == BuilderSanitized[sql_text]
            columns == build_args[1]
            filters == build_args[2]
        IN  /\ tbl \in DOMAIN columns_cache
            /\ columns_cache[tbl] # {}
            /\ \A i \in DOMAIN columns : columns[i] \in columns_cache[tbl]
            /\ \A i \in DOMAIN filters : filters[i][1] \in columns_cache[tbl]

\* s.endswith(p)
EndsWith(s, p) == MatchAt(s, Len(s) - Len(p) + 1, p)

\* the texts of the builder that start with select, hold no ";" and end with
\* LIMIT :_limit OFFSET :_offset
GoodShape ==
    {SelectSql[a] : a \in
        {b \in DOMAIN SelectSql :
            /\ StartsWith(Lower(Strip(SelectSql[b])), "select")
            /\ ~Contains(SelectSql[b], ";")
            /\ EndsWith(SelectSql[b], " LIMIT :_limit OFFSET :_offset")}}

\* C16: the statement the builder hands to execution starts with select,
\* contains no ";" and has nothing after LIMIT :_limit OFFSET :_offset.
C16_StatementShape ==
    (sql_op = "build_select_sql" /\ build_out # <<>>) =>
        build_out[1].sql \in GoodShape

(***************************************************************************)
(* More claims about POST /query (SpecQuery)                               *)
(***************************************************************************)
ErrorCodes ==
    {"VALIDATION_ERROR", "SEMANTIC_ERROR", "SQL_ERROR", "SERVICE_UNAVAILABLE",
     "INTERNAL_ERROR"}

\* C17: every error response carries both a stable error code and a
\* human-readable detail in its body.
C17_ErrorCarriesCode ==
    (response # <<>> /\ response[1].status # 200) =>
        /\ "detail" \in DOMAIN response[1].body
        /\ "code" \in DOMAIN response[1].body
        /\ response[1].body.code \in ErrorCodes

RECURSIVE TrailUpTo(_)
\* the reasons of the stages 1..k, in stage order
TrailUpTo(k) == IF k = 0 THEN <<>> ELSE TrailUpTo(k - 1) \o StageReasons[k]

\* the trail a run has accumulated when it ends
Trail(o) ==
    IF o.kind = "raise" THEN TrailUpTo(StagesCompleted(o))
    ELSE o.outputs.step1.reasons \o o.outputs.step2.reasons
            \o o.outputs.step3.reasons.v \o o.outputs.step4.reasons

C19_FreshRun ==
    route_result # <<>> =>
        /\ ~from_cache
        /\ Len(llm_calls) = 4

\* no id occurs twice in the rows
NoDuplicateIds(rows) == Cardinality(Ids(rows)) = Len(rows)

\* C25: the candidate list given to the classifier at the CARD stage and at
\* the TABLE stage is the union of the children of all selected parents,
\* de-duplicated by id.
C25_CandidatesDeduplicated ==
    \A i \in DOMAIN llm_calls :
        llm_calls[i].stage \in {"CARD", "TABLE"} =>
            NoDuplicateIds(llm_calls[i].candidates)

(***************************************************************************)
(* Claims about Orchestrator.handle_query                                  *)
(***************************************************************************)
\* C28: every statement build_select_sql returns is accepted by
\* validate_sql_syntax, so that handle_query can execute what it built.
C28_BuiltStatementAccepted ==
    (sql_op = "handle_query" /\ build_out # <<>>) =>
        /\ validate_log # <<>>
        /\ validate_log[1].sql = build_out[1].sql
        /\ validate_log[1].is_valid

\* the value bound to :_limit in the statement handle_query built
BoundLimit == build_out[1].params[Len(build_out[1].params) - 1][2]

\* C30: no statement that execute_sql runs has an effective LIMIT greater
\* than _max_limit.
C30_LimitWithinMax ==
    (sql_op = "handle_query" /\ build_out # <<>> /\ build_out[1].sql \in Range(db_log)) =>
        BoundLimit <= max_limit

(***************************************************************************)
(* Claims about the l1_id patch of geo_reason                              *)
(***************************************************************************)
\* whether the statement compares l1_id with = ANY(...)
ComparesWithAny == [sql \in BuiltStatements |-> Contains(sql, "= ANY(%(l1_id)s)")]

Stored(row, k) == row[ResultKey[k]] # Null

\* C21: process_table invokes the LLM for step k only if the row has no
\* stored result for step k, the steps run in the order 1, 2, 3, 4, a stored
\* result is the input of the next step, and a finished run on a row that
\* had all four results made no LLM call and no database write.
C21_IdempotentPerRow ==
    task_before # <<>> =>
        /\ \A i \in DOMAIN task_calls : ~Stored(task_before[1], task_calls[i].step)
        /\ \A i \in DOMAIN task_calls : \A j \in DOMAIN task_calls :
              i < j => task_calls[i].step < task_calls[j].step
        /\ \A i \in DOMAIN task_calls :
              (task_calls[i].step > 1 /\ Stored(task_before[1], task_calls[i].step - 1))
                  => task_calls[i].input = task_before[1][ResultKey[task_calls[i].step - 1]]
        /\ (task_pc = 0 /\ \A k \in 1..4 : Stored(task_before[1], k))
                  => (task_calls = <<>> /\ task_writes = <<>>)

\* C22: after a non-dry run in which step 4 succeeded the row has is_done =
\* true and status 'done'; always, a row with is_done = true has status
\* 'done' and its table card in l3_table.
C22_DoneMeansDone ==
    /\ (task_pc = 0 /\ ~task_dry_run
            /\ \E i \in DOMAIN task_calls : task_calls[i].step = 4 /\ task_calls[i].ok)
          => (init_tasks[task_table].is_done /\ init_tasks[task_table].status = "done")
    /\ \A t \in TaskTables :
          init_tasks[t].is_done => (init_tasks[t].status = "done" /\ t \in l3_cards)

\* C27: after a non-dry run that raised, the result of every step that
\* succeeded in the run is stored in init_tasks and the status is 'failed'.
C27_IntermediateResultsStored ==
    (task_pc = 0 /\ ~task_dry_run /\ task_raised) =>
        /\ init_tasks[task_table].status = "failed"
        /\ \A i \in DOMAIN task_calls :
              task_calls[i].ok => Stored(init_tasks[task_table], task_calls[i].step)

(***************************************************************************)
(* Claims about import_three_level_mapping                                 *)
(***************************************************************************)
\* C24: after a run with --keep-existing every row that was in l1_category,
\* l2_card, map_l1_l2 and map_l2_l3 before the run is still there; after a
\* run in any mode the rows of l3_table are as before.
C24_KeepExistingPreserves ==
    map_args # <<>> =>
        /\ map_l3 = map_before[1].l3
        /\ map_args[1].keep_existing =>
              /\ map_before[1].db.l1 \subseteq map_db.l1
              /\ map_before[1].db.l2 \subseteq map_db.l2
              /\ map_before[1].db.m12 \subseteq map_db.m12
              /\ map_before[1].db.m23 \subseteq map_db.m23

(***************************************************************************)
(* Claims about import_table_name                                          *)
(***************************************************************************)
WriteKinds ==
    {"ALTER TABLE ADD COLUMN", "DO ALTER COLUMN TYPE", "INSERT",
     "UPDATE sample_data", "UPDATE schema_definition"}

\* C23: a run with --dry-run executes no DDL on public.init_tasks and no
\* INSERT or UPDATE, and leaves the columns and the rows as they were.
C23_DryRunWritesNothing ==
    (imp_args # <<>> /\ imp_args[1].dry_run) =>
        /\ \A i \in DOMAIN imp_log : imp_log[i].kind \notin WriteKinds
        /\ imp_columns = imp_before[1].columns
        /\ imp_rows = imp_before[1].rows

(***************************************************************************)
(* Claims about parse_json_safely                                          *)
(***************************************************************************)
\* the text without its enclosing code fence: the opening marker with its
\* tag and the closing marker
StripFences(text) ==
    LET s == strip(text)
        opened == IF s # <<>> /\ Head(s) = Fence
                  THEN IF Len(s) > 1 /\ s[2] = "json" THEN SubSeq(s, 3, Len(s))
                       ELSE Tail(s)
                  ELSE s
        closed == IF opened # <<>> /\ opened[Len(opened)] = Fence
                  THEN SubSeq(opened, 1, Len(opened) - 1) ELSE opened
    IN  strip(closed)

\* what json.loads makes of the fence-stripped texts, computed once
WholeParse == [text \in TextArgs |-> json_loads(StripFences(text))]

\* the values that can be read from a span of the text
SpanValues ==
    [text \in TextArgs |->
        {json_loads(SubSeq(text, i, j)).value : i \in DOMAIN text, j \in DOMAIN text}
            \ {NoValue}]

\* C26: a fence-stripped text that is itself valid JSON decodes to that
\* value; whatever parse_json_safely returns is a JSON value read from the
\* text, and where none can be read it raises.
C26_LenientDecoder ==
    dec_out # <<>> =>
        /\ WholeParse[dec_text].ok => dec_out[1] = WholeParse[dec_text]
        /\ dec_out[1].ok => dec_out[1].value \in SpanValues[dec_text]

==============================================================================
